---- MODULE Spec2Model ----
(***************************************************************************)
(* Layout engine (LayoutEngine.build) and layout validator                 *)
(* (validateLayout) of the arena placement core.                           *)
(*                                                                         *)
(* Units.  World coordinates are integers in centimetres.  Normalized      *)
(* template coordinates (0..1) are integers in hundredths, arena sizes are *)
(* whole metres, so toWorld is exact: (n - 50) * size  [cm].  Angles are   *)
(* milliradians.  The two places where the code goes through sqrt/atan2/   *)
(* cos/sin (cluster rotation, spawn-distance reposition) are rounded to    *)
(* the centimetre.                                                         *)
(***************************************************************************)
EXTENDS Integers, Sequences, FiniteSets, TLC

\* ------------------------------------------------------------------------
\* Bounds of the model
\* ------------------------------------------------------------------------
MaxEnemies == 2
MaxPickups == 1

\* ------------------------------------------------------------------------
\* Arithmetic helpers (Math.*)
\* ------------------------------------------------------------------------
Abs(a) == IF a < 0 THEN -a ELSE a
Min(a, b) == IF a < b THEN a ELSE b
Max(a, b) == IF a > b THEN a ELSE b
Sign(a) == IF a < 0 THEN -1 ELSE IF a > 0 THEN 1 ELSE 0

\* Math.round(n / d) for d > 0: nearest integer, halves towards +infinity
RoundDiv(n, d) == (2 * n + d) \div (2 * d)

\* Math.ceil(n / d) for n >= 0, d > 0
CeilDiv(n, d) == (n + d - 1) \div d

RECURSIVE IsqrtIter(_, _, _)
IsqrtIter(n, lo, hi) ==
    IF lo >= hi THEN lo
    ELSE LET mid == (lo + hi + 1) \div 2
         IN  IF mid * mid <= n THEN IsqrtIter(n, mid, hi)
                               ELSE IsqrtIter(n, lo, mid - 1)

\* floor(Math.sqrt(n)) for 0 <= n < 2^31
Isqrt(n) == IsqrtIter(n, 0, 46340)

\* Math.cos / Math.sin of the rotations the templates use, times 1000
Cos1000(r) == CASE r = 0 -> 1000 [] r = 785 -> 707 [] r = 1571 -> 0
                [] r = 3142 -> -1000 [] OTHER -> 1000
Sin1000(r) == CASE r = 0 -> 0 [] r = 785 -> 707 [] r = 1571 -> 1000
                [] r = 3142 -> 0 [] OTHER -> 0

Vec3(x, y, z) == [x |-> x, y |-> y, z |-> z]

\* ------------------------------------------------------------------------
\* Asset dimension lookups (cm)
\* ------------------------------------------------------------------------
Dims(w, h, d) == [w |-> w, h |-> h, d |-> d]

\* LayoutEngine's table; Undef when the id is not a key
ASSET_DIMS(assetId) ==
    CASE assetId = "kenney_block"          -> Dims(100, 100, 100)
      [] assetId = "kenney_bricks"         -> Dims(100, 50, 100)
      [] assetId = "kenney_column"         -> Dims(50, 200, 50)
      [] assetId = "kenney_column_damaged" -> Dims(50, 120, 50)
      [] assetId = "kenney_wall_low"       -> Dims(200, 100, 50)
      [] assetId = "kenney_wall"           -> Dims(200, 200, 40)
      [] assetId = "kenney_wall_high"      -> Dims(200, 170, 50)
      [] assetId = "kenney_wall_gate"      -> Dims(200, 200, 40)
      [] assetId = "kenney_statue"         -> Dims(80, 200, 80)
      [] assetId = "kenney_banner"         -> Dims(60, 200, 10)
      [] assetId = "kenney_tree"           -> Dims(150, 300, 150)
      [] OTHER                             -> Dims(0, 0, 0)

KnownAsset(assetId) == ASSET_DIMS(assetId).w # 0

\* `ASSET_DIMS[id] ?? default`
DimsOr(assetId, default) == IF KnownAsset(assetId) THEN ASSET_DIMS(assetId) ELSE default

\* layout-validator's own table (footprints only)
VALIDATOR_DIMS(assetId) ==
    CASE assetId = "kenney_block"          -> [w |-> 100, d |-> 100]
      [] assetId = "kenney_bricks"         -> [w |-> 100, d |-> 100]
      [] assetId = "kenney_column"         -> [w |-> 50,  d |-> 50]
      [] assetId = "kenney_column_damaged" -> [w |-> 50,  d |-> 50]
      [] assetId = "kenney_wall_low"       -> [w |-> 200, d |-> 50]
      [] assetId = "kenney_wall"           -> [w |-> 200, d |-> 40]
      [] assetId = "kenney_wall_high"      -> [w |-> 200, d |-> 50]
      [] assetId = "kenney_wall_gate"      -> [w |-> 200, d |-> 40]
      [] OTHER                             -> [w |-> 100, d |-> 100]

\* ------------------------------------------------------------------------
\* Templates (LayoutTemplateDef)
\* ------------------------------------------------------------------------
N(nx, nz) == [nx |-> nx, nz |-> nz]
Piece(dx, dz, assetId, rotY) == [dx |-> dx, dz |-> dz, assetId |-> assetId, rotY |-> rotY]
Cluster(anchor, rotation, pieces) ==
    [anchor |-> anchor, rotation |-> rotation, pieces |-> pieces]
WallLine(start, end, assetId, gaps) ==
    [start |-> start, end |-> end, assetId |-> assetId, gaps |-> gaps]
Decoration(nx, nz, rotation, assetId, themeTags) ==
    [nx |-> nx, nz |-> nz, rotation |-> rotation, assetId |-> assetId,
     themeTags |-> themeTags]
EnemyHint(offsets, preferredAI, capacity) ==
    [offsets |-> offsets, preferredAI |-> preferredAI, capacity |-> capacity]
PickupHint(nx, nz, preferredTypes) ==
    [nx |-> nx, nz |-> nz, preferredTypes |-> preferredTypes]
Lane(from, to, width) == [from |-> from, to |-> to, width |-> width]

bunkerTemplate ==
    [ playerSpawn |-> N(50, 88),
      coverClusters |-> <<
        Cluster(N(25, 55), 0, << Piece(0, 0, "kenney_bricks", 0),
                                 Piece(120, 0, "kenney_bricks", 0),
                                 Piece(0, 80, "kenney_bricks", 1571) >>),
        Cluster(N(75, 55), 0, << Piece(0, 0, "kenney_bricks", 0),
                                 Piece(-120, 0, "kenney_bricks", 0),
                                 Piece(0, 80, "kenney_bricks", 1571) >>),
        Cluster(N(30, 22), 0, << Piece(0, 0, "kenney_block", 0),
                                 Piece(120, 0, "kenney_block", 0),
                                 Piece(240, 0, "kenney_block", 0),
                                 Piece(60, 120, "kenney_bricks", 0) >>),
        Cluster(N(80, 20), 0, << Piece(0, 0, "kenney_block", 0),
                                 Piece(120, 0, "kenney_block", 200),
                                 Piece(60, 120, "kenney_block", 0) >>),
        Cluster(N(50, 72), 0, << Piece(-100, 0, "kenney_wall_low", 0),
                                 Piece(120, 0, "kenney_wall_low", 0) >>),
        Cluster(N(50, 42), 0, << Piece(-200, 0, "kenney_column", 0),
                                 Piece(200, 0, "kenney_column", 0) >>) >>,
      wallLines |-> <<
        WallLine(N(12, 38), N(45, 38), "kenney_wall_low", <<70>>),
        WallLine(N(55, 38), N(88, 38), "kenney_wall_low", <<30>>),
        WallLine(N(40, 62), N(60, 62), "kenney_wall_low", <<50>>) >>,
      decorations |-> <<
        Decoration(15, 12, 0, "kenney_banner", {"military"}),
        Decoration(85, 12, 0, "kenney_banner", {"military"}),
        Decoration(50, 12, 0, "kenney_banner", {"military"}) >>,
      enemyHints |-> <<
        EnemyHint(<<N(28, 20), N(35, 25)>>, {"guard", "patrol"}, 3),
        EnemyHint(<<N(78, 18), N(82, 22)>>, {"guard"}, 2),
        EnemyHint(<<N(50, 52), N(45, 58)>>, {"patrol", "wander"}, 3),
        EnemyHint(<<N(22, 55)>>, {"guard"}, 2) >>,
      pickupHints |-> <<
        PickupHint(82, 18, {"weapon", "ammo"}),
        PickupHint(20, 22, {"ammo"}),
        PickupHint(50, 50, {"health"}),
        PickupHint(80, 58, {"health", "armor"}) >>,
      lanes |-> <<
        Lane(N(50, 88), N(50, 15), 300),
        Lane(N(15, 85), N(15, 15), 250),
        Lane(N(85, 85), N(85, 15), 250),
        Lane(N(15, 55), N(85, 55), 250) >> ]

\* Hand-written templates covering the cases of LayoutTemplateDef that the
\* shipped templates do not: a hint with one offset and capacity 2, a
\* zero-length wall line, a 10 m wall line with a mid gap (in a 20 m arena),
\* a tight cluster of large pieces, no lanes.
duoTemplate ==
    [ playerSpawn |-> N(50, 90),
      coverClusters |-> <<
        Cluster(N(50, 50), 0, << Piece(0, 0, "kenney_tree", 0),
                                 Piece(80, 0, "kenney_tree", 0),
                                 Piece(-80, 0, "kenney_tree", 0),
                                 Piece(0, 140, "kenney_statue", 0),
                                 Piece(0, -140, "kenney_tree", 0) >>),
        Cluster(N(50, 50), 1571, << Piece(100, 100, "kenney_tree", 0),
                                    Piece(-100, 100, "crate", 0) >>) >>,
      wallLines |-> <<
        WallLine(N(30, 30), N(30, 30), "kenney_wall", <<>>),
        WallLine(N(25, 35), N(75, 35), "kenney_wall", <<50>>) >>,
      decorations |-> <<
        Decoration(50, 20, 0, "kenney_tree", {"outdoor"}),
        Decoration(50, 75, 0, "lamp", {}) >>,
      enemyHints |-> << EnemyHint(<<N(50, 20)>>, {"guard"}, 2) >>,
      pickupHints |-> << PickupHint(50, 30, {"health"}) >>,
      lanes |-> << >> ]

\* One hint with room for a single enemy, spawn in a corner.
soloTemplate ==
    [ playerSpawn |-> N(15, 85),
      coverClusters |-> <<
        Cluster(N(50, 50), 785, << Piece(100, 0, "kenney_block", 0),
                                   Piece(150, 0, "kenney_block", 0) >>) >>,
      wallLines |-> << WallLine(N(60, 20), N(60, 80), "kenney_wall_high", <<0, 100>>) >>,
      decorations |-> << >>,
      enemyHints |-> << EnemyHint(<<N(30, 70), N(80, 20)>>, {"patrol"}, 1) >>,
      pickupHints |-> << >>,
      lanes |-> << Lane(N(40, 40), N(40, 40), 200), Lane(N(20, 75), N(80, 25), 300) >> ]

\* Geometrically degenerate elements: a hint whose offsets list is empty and
\* a zero-length wall line, each followed by a regular element.
degenerateTemplate ==
    [ playerSpawn |-> N(50, 90),
      coverClusters |-> << >>,
      wallLines |-> <<
        WallLine(N(50, 50), N(50, 50), "kenney_wall_low", <<>>),
        WallLine(N(40, 30), N(60, 30), "kenney_wall_low", <<>>) >>,
      decorations |-> << >>,
      enemyHints |-> << EnemyHint(<<>>, {"guard"}, 1),
                        EnemyHint(<<N(50, 20)>>, {"chase"}, 1) >>,
      pickupHints |-> << PickupHint(50, 50, {}) >>,
      lanes |-> << >> ]

\* Elements near the limits of what the generators handle: three blocks in a
\* row of which only neighbours touch, wall lines whose gap falls between two
\* segment centres, and enemy hints close to the arena border (as the shipped
\* hints at nx 0.85 and 0.86 are).
edgeTemplate ==
    [ playerSpawn |-> N(50, 90),
      coverClusters |-> <<
        Cluster(N(50, 60), 0, << Piece(0, 0, "kenney_block", 0),
                                 Piece(80, 0, "kenney_block", 0),
                                 Piece(160, 0, "kenney_block", 0) >>) >>,
      wallLines |-> <<
        WallLine(N(25, 30), N(74, 30), "kenney_wall_low", <<50>>),
        WallLine(N(30, 20), N(44, 20), "kenney_wall", <<0>>) >>,
      decorations |-> << >>,
      enemyHints |-> << EnemyHint(<<N(86, 38)>>, {"guard", "wander"}, 1),
                        EnemyHint(<<N(50, 8)>>, {"patrol"}, 1) >>,
      pickupHints |-> << PickupHint(20, 50, {"health"}) >>,
      lanes |-> << Lane(N(50, 10), N(50, 50), 300) >> ]

EdgeTemplateNames == {"edge"}

TemplateNames == {"bunker", "duo", "solo", "degenerate"}

\* LAYOUT_TEMPLATES[templateName]; only called for registered names
LAYOUT_TEMPLATES(name) ==
    CASE name = "bunker"     -> bunkerTemplate
      [] name = "duo"        -> duoTemplate
      [] name = "solo"       -> soloTemplate
      [] name = "edge"       -> edgeTemplate
      [] OTHER               -> degenerateTemplate

\* ------------------------------------------------------------------------
\* Requests
\* ------------------------------------------------------------------------
AITypes == {"patrol", "guard", "chase", "wander", "boss"}
PickupTypes == {"health", "weapon"}
NoPath == << >>
NoPos == Vec3(0, -1, 0)

\* Arena footprints (metres) with the optional theme, given as the set of
\* decoration tags the lower-cased theme string contains
Arenas ==
    { [x |-> 30, z |-> 26, hasTheme |-> TRUE,  themeTags |-> {"military"}],
      [x |-> 20, z |-> 20, hasTheme |-> FALSE, themeTags |-> {}],
      [x |-> 6,  z |-> 6,  hasTheme |-> TRUE,  themeTags |-> {}] }

Enemy(id, aiType, position) ==
    [id |-> id, aiType |-> aiType, position |-> position,
     patrolPath |-> NoPath, guardPosition |-> NoPos]
Pickup(id, type, position) == [id |-> id, type |-> type, position |-> position]

\* every AI type at the generator's placeholder position, and one enemy that
\* carries a position of its own
EnemyChoices == { [aiType |-> t, position |-> Vec3(0, 0, 0)] : t \in AITypes }
                \cup { [aiType |-> "chase", position |-> Vec3(0, 0, 1200)] }

SeqsUpTo(S, n) == UNION { [1..m -> S] : m \in 0..n }

EnemyLists == { [i \in DOMAIN c |-> Enemy(i, c[i].aiType, c[i].position)] :
                c \in SeqsUpTo(EnemyChoices, MaxEnemies) }
PickupLists == { [i \in DOMAIN c |-> Pickup(i, c[i], Vec3(0, 0, 0))] :
                 c \in SeqsUpTo(PickupTypes, MaxPickups) }

\* Requests that carry behaviour paths of their own and several pickups
MaxRunEnemies == 1
MaxRunPickups == 3

\* an enemy as the generator may emit it: a patrolPath (at least 2 points)
\* and a guardPosition given whatever the AI type
EnemyWithPath(id, aiType, position) ==
    [id |-> id, aiType |-> aiType, position |-> position,
     patrolPath |-> << Vec3(0, 0, 0), Vec3(500, 0, 0) >>,
     guardPosition |-> Vec3(100, 0, 100)]

RunEnemyLists == { [i \in DOMAIN c |-> EnemyWithPath(i, c[i], Vec3(0, 0, 0))] :
                   c \in SeqsUpTo(AITypes, MaxRunEnemies) }
RunPickupLists == { [i \in DOMAIN c |-> Pickup(i, c[i], Vec3(0, 0, 0))] :
                    c \in SeqsUpTo(PickupTypes, MaxRunPickups) }

\* ------------------------------------------------------------------------
\* State
\* ------------------------------------------------------------------------
VARIABLES
    templateName,    \* build's arguments: the request
    arena,
    enemies,
    pickups,
    pc,              \* position in loadSpec: build's steps, then validateLayout
    callNo,          \* 1 for the first build() of the request, 2 for the repeat
    playerSpawn,     \* the LayoutResult under construction / returned
    coverObjects,
    wallEntities,
    adjustedEnemies,
    adjustedPickups,
    decorations,
    usedCapacity,    \* placeEnemies: hint index -> enemies assigned so far
    enemyIdx,        \* placeEnemies: number of enemies processed
    hintOf,          \* placeEnemies: hintIdx found for each processed enemy
    pickupHintOf,    \* placePickups: hintIdx found for each pickup
    shared,          \* which result arrays are the request's own array objects
    overlapIds,      \* validateLayout: ids marked as overlapping
    issues,          \* validateLayout: issues returned
    allBoxes,        \* validateLayout: the boxes collected from covers and walls
    blocked,         \* validateLayout: grid cells marked blocked
    visited,         \* validateLayout: grid cells marked visited by the fill
    stack,           \* validateLayout: the flood fill's stack of cells
    pops,            \* validateLayout: cells popped by the flood fill so far
    quadCoverage,    \* validateLayout: covered area of the four quadrants
    firstResult      \* what the first build() returned

vars == << templateName, arena, enemies, pickups, pc, callNo, playerSpawn,
           coverObjects, wallEntities, adjustedEnemies, adjustedPickups,
           decorations, usedCapacity, enemyIdx, hintOf, pickupHintOf, shared,
           overlapIds, issues, allBoxes, blocked, visited, stack, pops,
           quadCoverage, firstResult >>

request == << templateName, arena, enemies, pickups >>
result == << playerSpawn, coverObjects, wallEntities, adjustedEnemies,
             adjustedPickups, decorations >>
fill == << allBoxes, blocked, visited, stack, pops, quadCoverage >>
validation == << overlapIds, issues, fill >>

\* The LayoutResult object
LayoutResult ==
    [ coverObjects |-> coverObjects, wallEntities |-> wallEntities,
      adjustedEnemies |-> adjustedEnemies, adjustedPickups |-> adjustedPickups,
      decorations |-> decorations, playerSpawn |-> playerSpawn ]

Registered == templateName \in TemplateNames \cup EdgeTemplateNames
template == LAYOUT_TEMPLATES(templateName)
sX == arena.x * 100
sZ == arena.z * 100

\* ------------------------------------------------------------------------
\* Coordinate mapping
\* ------------------------------------------------------------------------
\* toWorld: nx, nz in hundredths, arena size in metres -> cm
toWorld(nx, nz) == [x |-> (nx - 50) * arena.x, z |-> (nz - 50) * arena.z]

margin == 150

inBounds(x, z) == Abs(x) * 2 < sX - 2 * margin /\ Abs(z) * 2 < sZ - 2 * margin

\* ------------------------------------------------------------------------
\* Cover generation
\* ------------------------------------------------------------------------
RECURSIVE PlacePieces(_, _, _)
PlacePieces(cluster, i, covers) ==
    IF i > Len(cluster.pieces) THEN covers
    ELSE LET piece  == cluster.pieces[i]
             anchor == toWorld(cluster.anchor.nx, cluster.anchor.nz)
             cosR   == Cos1000(cluster.rotation)
             sinR   == Sin1000(cluster.rotation)
             rx     == RoundDiv(piece.dx * cosR - piece.dz * sinR, 1000)
             rz     == RoundDiv(piece.dx * sinR + piece.dz * cosR, 1000)
             wx     == anchor.x + rx
             wz     == anchor.z + rz
             dims   == DimsOr(piece.assetId, Dims(100, 100, 100))
         IN  IF ~inBounds(wx, wz) THEN PlacePieces(cluster, i + 1, covers)
             ELSE PlacePieces(cluster, i + 1,
                    Append(covers, [ id       |-> <<"layout-cover", Len(covers)>>,
                                     position |-> Vec3(wx, 0, wz),
                                     size     |-> dims,
                                     assetId  |-> piece.assetId ]))

RECURSIVE PlaceClusters(_, _, _)
PlaceClusters(clusters, c, covers) ==
    IF c > Len(clusters) THEN covers
    ELSE PlaceClusters(clusters, c + 1, PlacePieces(clusters[c], 1, covers))

generateCoverObjects(t) == PlaceClusters(t.coverClusters, 1, << >>)

\* ------------------------------------------------------------------------
\* Wall line tiling
\* ------------------------------------------------------------------------
\* the count taken with Math.floor instead of Math.round
SegCountFloor(lineLen, segWidth) == Max(1, lineLen \div segWidth)

\* segCount = Math.max(1, Math.round(lineLen / segWidth))
SegCount(lineLen, segWidth) == Max(1, RoundDiv(lineLen, segWidth))

\* gapPositions.some(gp => |t - gp| < gapRadius) for segment i of n, with
\* t = (i + 0.5) * lineLen / n, gp = g * lineLen, gapRadius = 0.6 * segWidth;
\* both sides multiplied by 200 * n
InGap(i, n, lineLen, segWidth, gaps) ==
    \E g \in DOMAIN gaps :
        Abs(100 * (2 * i + 1) * lineLen - 2 * n * gaps[g] * lineLen)
            < 120 * n * segWidth

RECURSIVE TileSegments(_, _, _)
TileSegments(wallLine, i, entities) ==
    LET start    == toWorld(wallLine.start.nx, wallLine.start.nz)
        end      == toWorld(wallLine.end.nx, wallLine.end.nz)
        dx       == end.x - start.x
        dz       == end.z - start.z
        lineLen  == Isqrt(dx * dx + dz * dz)
        dims     == DimsOr(wallLine.assetId, Dims(200, 200, 40))
        segWidth == dims.w
        segCount == SegCount(lineLen, segWidth)
        \* start + dir * t, with dir = d / lineLen and t = (i + 0.5) * lineLen / segCount
        wx       == start.x + RoundDiv(dx * (2 * i + 1), 2 * segCount)
        wz       == start.z + RoundDiv(dz * (2 * i + 1), 2 * segCount)
    IN  IF i >= segCount THEN entities
        ELSE IF InGap(i, segCount, lineLen, segWidth, wallLine.gaps)
                \/ ~inBounds(wx, wz)
             THEN TileSegments(wallLine, i + 1, entities)
             ELSE TileSegments(wallLine, i + 1,
                    Append(entities, [ id       |-> <<"layout-wall", Len(entities)>>,
                                       position |-> Vec3(wx, 0, wz),
                                       size     |-> dims,
                                       assetId  |-> wallLine.assetId ]))

\* lineLen < 0.1: the line is skipped
ZeroLength(wallLine) ==
    LET start == toWorld(wallLine.start.nx, wallLine.start.nz)
        end   == toWorld(wallLine.end.nx, wallLine.end.nz)
        dx    == end.x - start.x
        dz    == end.z - start.z
    IN  dx * dx + dz * dz < 10 * 10

RECURSIVE TileLines(_, _, _)
TileLines(wallLines, l, entities) ==
    IF l > Len(wallLines) THEN entities
    ELSE IF ZeroLength(wallLines[l]) THEN TileLines(wallLines, l + 1, entities)
    ELSE TileLines(wallLines, l + 1, TileSegments(wallLines[l], 0, entities))

tileWallLines(t) == TileLines(t.wallLines, 1, << >>)

\* ------------------------------------------------------------------------
\* Enemy placement
\* ------------------------------------------------------------------------
\* Array identity.  `shared` names the result arrays that are the very array
\* objects of the request; a write to such a result is a write to the request.
\* `adjustedEnemies: enemies, adjustedPickups: pickups` of the unknown-template
\* branch hands both request arrays out.
RequestArrays == {"enemies", "pickups"}

\* `const result = list`: no copy is made, the result is the request's array
AliasedArray(name, held) == held \cup {name}

\* `const result = JSON.parse(JSON.stringify(list))`: the result is a new array
FreshArray(name, held) == held \ {name}

\* the request's list after the result list was written
WriteThrough(name, held, requestList, resultList) ==
    IF name \in held THEN resultList ELSE requestList

\* JSON.parse(JSON.stringify(list)): a deep copy, rebuilt field by field
\* (an `undefined` path or guard position stays absent)
\* a copy that keeps only as many enemies as the template's hints have room for
RECURSIVE CapacityFrom(_, _)
CapacityFrom(hints, i) ==
    IF i > Len(hints) THEN 0 ELSE hints[i].capacity + CapacityFrom(hints, i + 1)

CloneEnemiesWithinCapacity(list) ==
    LET room == CapacityFrom(template.enemyHints, 1)
        kept == SubSeq(list, 1, Min(Len(list), room))
    IN  [i \in DOMAIN kept |->
            [ id            |-> kept[i].id,
              aiType        |-> kept[i].aiType,
              position      |-> kept[i].position,
              patrolPath    |-> kept[i].patrolPath,
              guardPosition |-> kept[i].guardPosition ]]

CloneEnemies(list) ==
    [i \in DOMAIN list |->
        [ id            |-> list[i].id,
          aiType        |-> list[i].aiType,
          position      |-> Vec3(list[i].position.x, list[i].position.y, list[i].position.z),
          patrolPath    |-> [j \in DOMAIN list[i].patrolPath |-> list[i].patrolPath[j]],
          guardPosition |-> list[i].guardPosition ]]

ClonePickups(list) ==
    [i \in DOMAIN list |->
        [ id       |-> list[i].id,
          type     |-> list[i].type,
          position |-> Vec3(list[i].position.x, list[i].position.y, list[i].position.z) ]]

\* a Map that outlives the call: the counts of the previous build are still in it
StaleUsedCapacity(hints) ==
    IF DOMAIN usedCapacity = 0..(Len(hints) - 1) THEN usedCapacity
    ELSE [i \in 0..(Len(hints) - 1) |-> 0]

\* new Map<number, number>(): every hint index reads as 0
NewUsedCapacity(hints) == [i \in 0..(Len(hints) - 1) |-> 0]

\* off by one: a hint is only skipped once it holds more than its capacity
HintFullLate(hint, used) == used > hint.capacity

\* `used >= hints[i].capacity`: the hint is skipped
HintFull(hint, used) == used >= hint.capacity

\* the score without the bonus for a hint that is still unused
HintScoreNoBonus(hint, used, aiType) ==
    1 + (IF aiType \in hint.preferredAI THEN 2 ELSE 0)

HintScore(hint, used, aiType) ==
    1 + (IF aiType \in hint.preferredAI THEN 2 ELSE 0) + (IF used = 0 THEN 1 ELSE 0)

\* the loop of findBestHint from index i on (indices are 0-based, -1 = none)
RECURSIVE FindBestHintFrom(_, _, _, _, _, _)
FindBestHintFrom(hints, used, aiType, i, bestIdx, bestScore) ==
    IF i >= Len(hints) THEN bestIdx
    ELSE IF HintFull(hints[i + 1], used[i])
         THEN FindBestHintFrom(hints, used, aiType, i + 1, bestIdx, bestScore)
    ELSE LET score == HintScore(hints[i + 1], used[i], aiType)
         IN  IF score > bestScore
             THEN FindBestHintFrom(hints, used, aiType, i + 1, i, score)
             ELSE FindBestHintFrom(hints, used, aiType, i + 1, bestIdx, bestScore)

findBestHint(hints, used, aiType) == FindBestHintFrom(hints, used, aiType, 0, -1, -1)

Clamp(v, half) == Max(-half, Min(half, v))
halfX == (sX \div 2) - 200
halfZ == (sZ \div 2) - 200

\* overflow = Math.max(0, used - hint.offsets.length)
Overflow(used, nOffsets) == Max(0, used - nOffsets)

\* the perpendicular offset added to pos.x when overflow > 0
Nudge(overflow) ==
    IF overflow > 0
    THEN (IF overflow % 2 = 0 THEN 1 ELSE -1) * 200 * CeilDiv(overflow, 2)
    ELSE 0

\* position given to an enemy assigned to `hint` that already holds `used`
HintPosition(hint, used) ==
    LET offset == hint.offsets[(used % Len(hint.offsets)) + 1]
        pos    == toWorld(offset.nx, offset.nz)
        px     == pos.x + Nudge(Overflow(used, Len(hint.offsets)))
    IN  Vec3(Clamp(px, halfX), 0, Clamp(pos.z, halfZ))

DistSq(a, b) == (a.x - b.x) * (a.x - b.x) + (a.z - b.z) * (a.z - b.z)

\* distXZ(position, playerSpawn) < 10
TooClose(p, spawn) == DistSq(p, spawn) < 1000 * 1000

\* spawn + (cos(angle), sin(angle)) * 12 with angle = atan2(dz, dx), then clamped;
\* atan2(0, 0) = 0.  |d| is taken in mm to keep the rounding below 1 cm.
Reposition(p, spawn) ==
    LET dx  == p.x - spawn.x
        dz  == p.z - spawn.z
        len == Isqrt(100 * (dx * dx + dz * dz))
        nx  == IF len = 0 THEN spawn.x + 1200
               ELSE spawn.x + Sign(dx) * RoundDiv(12000 * Abs(dx), len)
        nz  == IF len = 0 THEN spawn.z
               ELSE spawn.z + Sign(dz) * RoundDiv(12000 * Abs(dz), len)
    IN  Vec3(Clamp(nx, halfX), p.y, Clamp(nz, halfZ))

\* the reposition applied without the distance test
RepositionAlways(p, spawn) == Reposition(p, spawn)

\* "Verify 10-unit minimum from player spawn; nudge if too close"
EnforceSpawnDistance(p, spawn) == IF TooClose(p, spawn) THEN Reposition(p, spawn) ELSE p

\* findNearestLane: index of the chosen lane, 0 for null.  midDist compares
\* the world position (metres) with the lane midpoint minus 0.5 (normalized);
\* both are scaled by 200 and the distances compared squared.
LaneMidDistSq(lane, pos) ==
    LET ax == 2 * pos.x - (lane.from.nx + lane.to.nx - 100)
        az == 2 * pos.z - (lane.from.nz + lane.to.nz - 100)
    IN  ax * ax + az * az

LaneLenSq(lane) ==
    (lane.to.nx - lane.from.nx) * (lane.to.nx - lane.from.nx)
    + (lane.to.nz - lane.from.nz) * (lane.to.nz - lane.from.nz)

RECURSIVE NearestLaneFrom(_, _, _, _)
NearestLaneFrom(lanes, pos, i, best) ==
    IF i > Len(lanes) THEN best
    ELSE IF LaneLenSq(lanes[i]) < 1 THEN NearestLaneFrom(lanes, pos, i + 1, best)
    ELSE IF best = 0 \/ LaneMidDistSq(lanes[i], pos) < LaneMidDistSq(lanes[best], pos)
         THEN NearestLaneFrom(lanes, pos, i + 1, i)
         ELSE NearestLaneFrom(lanes, pos, i + 1, best)

findNearestLane(t, pos) == NearestLaneFrom(t.lanes, pos, 1, 0)

\* lane direction (unit vector) times 3 m, in cm
LaneStep(lane) ==
    LET ldx == lane.to.nx - lane.from.nx
        ldz == lane.to.nz - lane.from.nz
        len == Isqrt(10000 * LaneLenSq(lane))
    IN  [dx |-> Sign(ldx) * RoundDiv(30000 * Abs(ldx), len),
         dz |-> Sign(ldz) * RoundDiv(30000 * Abs(ldz), len)]

\* the guard case without `patrolPath = undefined`: a guard keeps the path
\* the request gave it
regeneratePathsGuardKeepsPath(enemy, t) ==
    LET p == enemy.position
    IN  CASE enemy.aiType = "patrol" ->
               LET l    == findNearestLane(t, p)
                   step == IF l = 0 THEN [dx |-> 300, dz |-> 0] ELSE LaneStep(t.lanes[l])
               IN  [enemy EXCEPT !.patrolPath =
                       << Vec3(p.x - step.dx, 0, p.z - step.dz),
                          Vec3(p.x + step.dx, 0, p.z + step.dz) >>]
          [] enemy.aiType = "guard" ->
               [enemy EXCEPT !.guardPosition = Vec3(p.x, 0, p.z)]
          [] enemy.aiType = "wander" ->
               [enemy EXCEPT !.patrolPath =
                       << Vec3(p.x - 400, 0, p.z - 400), Vec3(p.x + 400, 0, p.z - 400),
                          Vec3(p.x + 400, 0, p.z + 400), Vec3(p.x - 400, 0, p.z + 400) >>]
          [] OTHER -> enemy

regenerateBehaviorPaths(enemy, t) ==
    LET p == enemy.position
    IN  CASE enemy.aiType = "patrol" ->
               LET l    == findNearestLane(t, p)
                   step == IF l = 0 THEN [dx |-> 300, dz |-> 0] ELSE LaneStep(t.lanes[l])
               IN  [enemy EXCEPT !.patrolPath =
                       << Vec3(p.x - step.dx, 0, p.z - step.dz),
                          Vec3(p.x + step.dx, 0, p.z + step.dz) >>]
          [] enemy.aiType = "guard" ->
               [enemy EXCEPT !.guardPosition = Vec3(p.x, 0, p.z),
                             !.patrolPath = NoPath]
          [] enemy.aiType = "wander" ->
               [enemy EXCEPT !.patrolPath =
                       << Vec3(p.x - 400, 0, p.z - 400), Vec3(p.x + 400, 0, p.z - 400),
                          Vec3(p.x + 400, 0, p.z + 400), Vec3(p.x - 400, 0, p.z + 400) >>]
          [] OTHER -> enemy

\* ------------------------------------------------------------------------
\* Pickup placement
\* ------------------------------------------------------------------------
RECURSIVE FindBestPickupHintFrom(_, _, _, _, _, _)
FindBestPickupHintFrom(hints, used, pickupType, i, bestIdx, bestScore) ==
    IF i >= Len(hints)
    THEN (IF bestIdx < 0 /\ Len(hints) > 0 THEN 0 ELSE bestIdx)
    ELSE IF i \in used
         THEN FindBestPickupHintFrom(hints, used, pickupType, i + 1, bestIdx, bestScore)
    ELSE LET score == 1 + (IF pickupType \in hints[i + 1].preferredTypes THEN 2 ELSE 0)
         IN  IF score > bestScore
             THEN FindBestPickupHintFrom(hints, used, pickupType, i + 1, i, score)
             ELSE FindBestPickupHintFrom(hints, used, pickupType, i + 1, bestIdx, bestScore)

\* the search without the reuse of hint 0 once every hint is used
RECURSIVE BestUnusedPickupHintFrom(_, _, _, _, _, _)
BestUnusedPickupHintFrom(hints, used, pickupType, i, bestIdx, bestScore) ==
    IF i >= Len(hints) THEN bestIdx
    ELSE IF i \in used
         THEN BestUnusedPickupHintFrom(hints, used, pickupType, i + 1, bestIdx, bestScore)
    ELSE LET score == 1 + (IF pickupType \in hints[i + 1].preferredTypes THEN 2 ELSE 0)
         IN  IF score > bestScore
             THEN BestUnusedPickupHintFrom(hints, used, pickupType, i + 1, i, score)
             ELSE BestUnusedPickupHintFrom(hints, used, pickupType, i + 1, bestIdx,
                                           bestScore)

findBestPickupHintNoReuse(hints, used, pickupType) ==
    BestUnusedPickupHintFrom(hints, used, pickupType, 0, -1, -1)

findBestPickupHint(hints, used, pickupType) ==
    FindBestPickupHintFrom(hints, used, pickupType, 0, -1, -1)

\* the loop of placePickups from pickup i on, usedHints being the Set so far
\* placePickups without the clamp to the arena minus 2 m
RECURSIVE PlacePickupsUnclamped(_, _, _, _)
PlacePickupsUnclamped(t, list, i, usedHints) ==
    IF i > Len(list) THEN list
    ELSE LET hintIdx == findBestPickupHint(t.pickupHints, usedHints, list[i].type)
         IN  IF hintIdx < 0 THEN PlacePickupsUnclamped(t, list, i + 1, usedHints)
             ELSE LET hint == t.pickupHints[hintIdx + 1]
                      pos  == toWorld(hint.nx, hint.nz)
                  IN  PlacePickupsUnclamped(t,
                          [list EXCEPT ![i].position = Vec3(pos.x, 50, pos.z)],
                          i + 1, usedHints \cup {hintIdx})

RECURSIVE PlacePickupsFrom(_, _, _, _)
PlacePickupsFrom(t, list, i, usedHints) ==
    IF i > Len(list) THEN list
    ELSE LET hintIdx == findBestPickupHint(t.pickupHints, usedHints, list[i].type)
         IN  IF hintIdx < 0 THEN PlacePickupsFrom(t, list, i + 1, usedHints)
             ELSE LET hint == t.pickupHints[hintIdx + 1]
                      pos  == toWorld(hint.nx, hint.nz)
                      at   == Vec3(Clamp(pos.x, halfX), 50, Clamp(pos.z, halfZ))
                  IN  PlacePickupsFrom(t, [list EXCEPT ![i].position = at], i + 1,
                                       usedHints \cup {hintIdx})

placePickups(t, list) == PlacePickupsFrom(t, ClonePickups(list), 1, {})

\* the hintIdx that the same loop finds for each pickup, in input order
RECURSIVE PickupHintsFrom(_, _, _, _)
PickupHintsFrom(t, list, i, usedHints) ==
    IF i > Len(list) THEN << >>
    ELSE LET hintIdx == findBestPickupHint(t.pickupHints, usedHints, list[i].type)
         IN  << hintIdx >> \o
             PickupHintsFrom(t, list, i + 1,
                             IF hintIdx < 0 THEN usedHints ELSE usedHints \cup {hintIdx})

\* ------------------------------------------------------------------------
\* Decorations
\* ------------------------------------------------------------------------
\* `theme && dec.themeTags.length > 0 && !dec.themeTags.some(tag => theme.includes(tag))`
FilteredOut(dec) ==
    arena.hasTheme /\ dec.themeTags # {} /\ dec.themeTags \cap arena.themeTags = {}

RECURSIVE DecorateFrom(_, _, _)
DecorateFrom(decs, i, entities) ==
    IF i > Len(decs) THEN entities
    ELSE LET dec == decs[i]
             pos == toWorld(dec.nx, dec.nz)
         IN  IF FilteredOut(dec) \/ ~inBounds(pos.x, pos.z)
             THEN DecorateFrom(decs, i + 1, entities)
             ELSE DecorateFrom(decs, i + 1,
                    Append(entities, [ id       |-> <<"layout-decor", Len(entities)>>,
                                       position |-> Vec3(pos.x, 0, pos.z),
                                       size     |-> DimsOr(dec.assetId, Dims(50, 100, 50)),
                                       assetId  |-> dec.assetId ]))

generateDecorations(t) == DecorateFrom(t.decorations, 1, << >>)

\* ------------------------------------------------------------------------
\* Density enforcement
\* ------------------------------------------------------------------------
Footprint(cover) ==
    LET dims == DimsOr(cover.assetId, Dims(100, 100, 100)) IN dims.w * dims.d

\* maxFootprint = arenaX * arenaZ * 0.3, times 10
MaxFootprint10 == 3 * sX * sZ

\* the budget test made before the piece's own footprint is added
RECURSIVE ToRemoveFromLate(_, _, _, _)
ToRemoveFromLate(covers, i, totalFootprint, toRemove) ==
    IF i >= Len(covers) THEN toRemove
    ELSE ToRemoveFromLate(covers, i + 1, totalFootprint + Footprint(covers[i + 1]),
                          IF 10 * totalFootprint > MaxFootprint10 THEN Append(toRemove, i)
                                                                  ELSE toRemove)

\* a running total that counts the kept pieces only: a piece is dropped when
\* it does not fit, and a later, smaller one is kept when it does
RECURSIVE ToRemoveFitting(_, _, _, _)
ToRemoveFitting(covers, i, totalFootprint, toRemove) ==
    IF i >= Len(covers) THEN toRemove
    ELSE LET total == totalFootprint + Footprint(covers[i + 1])
         IN  IF 10 * total > MaxFootprint10
             THEN ToRemoveFitting(covers, i + 1, totalFootprint, Append(toRemove, i))
             ELSE ToRemoveFitting(covers, i + 1, total, toRemove)

\* the first loop of enforceDensity: the indices (0-based) pushed on toRemove
RECURSIVE ToRemoveFrom(_, _, _, _)
ToRemoveFrom(covers, i, totalFootprint, toRemove) ==
    IF i >= Len(covers) THEN toRemove
    ELSE LET total == totalFootprint + Footprint(covers[i + 1])
         IN  ToRemoveFrom(covers, i + 1, total,
                          IF 10 * total > MaxFootprint10 THEN Append(toRemove, i)
                                                         ELSE toRemove)

\* covers.splice(idx, 1), idx 0-based
Splice(list, idx) ==
    [j \in 1..(Len(list) - 1) |-> IF j <= idx THEN list[j] ELSE list[j + 1]]

\* the second loop: splice the recorded indices, last first
RECURSIVE SpliceAll(_, _, _)
SpliceAll(covers, toRemove, i) ==
    IF i < 1 THEN covers
    ELSE SpliceAll(Splice(covers, toRemove[i]), toRemove, i - 1)

enforceDensity(covers) ==
    LET toRemove == ToRemoveFrom(covers, 0, 0, << >>)
    IN  SpliceAll(covers, toRemove, Len(toRemove))

\* ------------------------------------------------------------------------
\* Layout validator: overlap check and auto-removal
\* ------------------------------------------------------------------------
entityToAABB(pos, assetId) ==
    LET dims == VALIDATOR_DIMS(assetId)
        hw   == dims.w \div 2
        hd   == dims.d \div 2
    IN  [minX |-> pos.x - hw, maxX |-> pos.x + hw,
         minZ |-> pos.z - hd, maxZ |-> pos.z + hd]

aabbIntersects(a, b) ==
    a.minX < b.maxX /\ a.maxX > b.minX /\ a.minZ < b.maxZ /\ a.maxZ > b.minZ

\* allBoxes: the covers in order, then the walls in order
AllBoxes(covers, walls) ==
    [i \in 1..(Len(covers) + Len(walls)) |->
        LET e == IF i <= Len(covers) THEN covers[i] ELSE walls[i - Len(covers)]
        IN  [id |-> e.id, aabb |-> entityToAABB(e.position, e.assetId)]]

\* marking the earlier box of an intersecting pair instead of the later one
MarkedEarlier(boxes, i, j) == boxes[i].id

\* the id added to overlapIds for an intersecting pair i < j
MarkedOf(boxes, i, j) == boxes[j].id

\* the inner loop over j for a fixed i: the j > i whose box intersects box i,
\* in loop order
IntersectingAfter(boxes, i) ==
    SelectSeq([k \in 1..(Len(boxes) - i) |-> i + k],
              LAMBDA j : aabbIntersects(boxes[i].aabb, boxes[j].aabb))

\* the issues pushed by the double loop from outer index i on
RECURSIVE OverlapIssuesFrom(_, _)
OverlapIssuesFrom(boxes, i) ==
    IF i > Len(boxes) THEN << >>
    ELSE LET js == IntersectingAfter(boxes, i)
         IN  [k \in 1..Len(js) |->
                 [type |-> "overlap", a |-> boxes[i].id, b |-> boxes[js[k]].id]]
             \o OverlapIssuesFrom(boxes, i + 1)

\* an overlap pass that skips the boxes already flagged: a box is marked only
\* for intersecting an earlier box that stays
RECURSIVE OverlapIdsKeptFrom(_, _, _)
OverlapIdsKeptFrom(boxes, i, ids) ==
    IF i > Len(boxes) THEN ids
    ELSE IF boxes[i].id \in ids THEN OverlapIdsKeptFrom(boxes, i + 1, ids)
         ELSE LET js == IntersectingAfter(boxes, i)
              IN  OverlapIdsKeptFrom(boxes, i + 1,
                      ids \cup { boxes[js[k]].id : k \in 1..Len(js) })

OverlapIdsKeptOnly(boxes) == OverlapIdsKeptFrom(boxes, 1, {})

\* overlapIds after the double loop
OverlapIds(boxes) ==
    UNION { LET js == IntersectingAfter(boxes, i)
            IN  { MarkedOf(boxes, i, js[k]) : k \in 1..Len(js) } :
            i \in 1..Len(boxes) }

OverlapPass(boxes) == [ids |-> OverlapIds(boxes), issues |-> OverlapIssuesFrom(boxes, 1)]

\* a forwards loop with splice: the element after a removed one is skipped
RECURSIVE RemoveFlaggedForwardFrom(_, _, _)
RemoveFlaggedForwardFrom(covers, ids, i) ==
    IF i >= Len(covers) THEN covers
    ELSE IF covers[i + 1].id \in ids
         THEN RemoveFlaggedForwardFrom(Splice(covers, i), ids, i + 1)
         ELSE RemoveFlaggedForwardFrom(covers, ids, i + 1)

RemoveFlaggedForward(covers, ids) == RemoveFlaggedForwardFrom(covers, ids, 0)

\* swap-and-pop removal: the last cover takes the place of the removed one
RECURSIVE RemoveFlaggedSwapFrom(_, _, _)
RemoveFlaggedSwapFrom(covers, ids, i) ==
    IF i < 0 THEN covers
    ELSE IF covers[i + 1].id \in ids
         THEN LET n     == Len(covers)
                  moved == [covers EXCEPT ![i + 1] = covers[n]]
              IN  RemoveFlaggedSwapFrom(SubSeq(moved, 1, n - 1), ids, i - 1)
         ELSE RemoveFlaggedSwapFrom(covers, ids, i - 1)

RemoveFlaggedSwap(covers, ids) == RemoveFlaggedSwapFrom(covers, ids, Len(covers) - 1)

\* "Auto-remove overlapping cover objects": backwards loop with splice
RECURSIVE RemoveFlaggedFrom(_, _, _)
RemoveFlaggedFrom(covers, ids, i) ==
    IF i < 0 THEN covers
    ELSE IF covers[i + 1].id \in ids
         THEN RemoveFlaggedFrom(Splice(covers, i), ids, i - 1)
         ELSE RemoveFlaggedFrom(covers, ids, i - 1)

RemoveFlagged(covers, ids) == RemoveFlaggedFrom(covers, ids, Len(covers) - 1)

\* ------------------------------------------------------------------------
\* validateLayout: blocked grid, flood fill, quadrant density
\* ------------------------------------------------------------------------
gridRes == 100

\* const halfX = arena.size.x / 2 (the validator's, not the placement clamp)
validatorHalfX == sX \div 2
validatorHalfZ == sZ \div 2

gridW == CeilDiv(sX, gridRes)
gridH == CeilDiv(sZ, gridRes)

\* a cell is <<gx, gz>>; the code's index is gz * gridW + gx
Cells == (0..(gridW - 1)) \X (0..(gridH - 1))

\* the cells gx0..gx1 x gz0..gz1 marked for one box
BoxCells(a) ==
    LET gx0 == Max(0, (a.minX + validatorHalfX) \div gridRes)
        gx1 == Min(gridW - 1, (a.maxX + validatorHalfX) \div gridRes)
        gz0 == Max(0, (a.minZ + validatorHalfZ) \div gridRes)
        gz1 == Min(gridH - 1, (a.maxZ + validatorHalfZ) \div gridRes)
    IN  (gx0..gx1) \X (gz0..gz1)

\* the marking loop without `if (overlapIds.has(box.id)) continue`
BlockedCellsAllBoxes(boxes, ids) ==
    UNION { BoxCells(boxes[i].aabb) : i \in DOMAIN boxes }

\* blocked[] after the marking loop: flagged boxes are skipped
BlockedCells(boxes, ids) ==
    UNION { BoxCells(boxes[i].aabb) :
            i \in { k \in DOMAIN boxes : boxes[k].id \notin ids } }

\* spawnGX, spawnGZ: the player spawn's cell, clamped into the grid
SpawnCell(spawn) ==
    << Max(0, Min(gridW - 1, (spawn.x + validatorHalfX) \div gridRes)),
       Max(0, Min(gridH - 1, (spawn.z + validatorHalfZ) \div gridRes)) >>

\* the four neighbours and the four diagonal cells
FloodNeighbors8(c) ==
    << <<c[1] - 1, c[2]>>, <<c[1] + 1, c[2]>>, <<c[1], c[2] - 1>>, <<c[1], c[2] + 1>>,
       <<c[1] - 1, c[2] - 1>>, <<c[1] + 1, c[2] - 1>>,
       <<c[1] - 1, c[2] + 1>>, <<c[1] + 1, c[2] + 1>> >>

\* neighbors = [[cx-1, cz], [cx+1, cz], [cx, cz-1], [cx, cz+1]]
FloodNeighbors(c) ==
    << <<c[1] - 1, c[2]>>, <<c[1] + 1, c[2]>>, <<c[1], c[2] - 1>>, <<c[1], c[2] + 1>> >>

\* an iteration that marks the popped cell and pushes its open neighbours
\* without marking them
FloodStepMarkOnPop(st, vis, blk) ==
    LET c     == st[Len(st)]
        rest  == SubSeq(st, 1, Len(st) - 1)
        fresh == SelectSeq(FloodNeighbors(c),
                           LAMBDA n : n \in Cells /\ n \notin blk /\ n \notin vis)
    IN  [stack |-> rest \o fresh, visited |-> vis \cup {c}]

\* one iteration of `while (stack.length > 0)`: pop a cell, then mark and
\* push each neighbour that is in the grid, not blocked and not yet visited
FloodStep(st, vis, blk) ==
    LET c     == st[Len(st)]
        rest  == SubSeq(st, 1, Len(st) - 1)
        fresh == SelectSeq(FloodNeighbors(c),
                           LAMBDA n : n \in Cells /\ n \notin blk /\ n \notin vis)
    IN  [stack |-> rest \o fresh,
         visited |-> vis \cup { fresh[k] : k \in DOMAIN fresh }]

\* the reachable fraction taken over all cells of the grid
UnreachableOfAllCells(reachable, totalOpen) ==
    totalOpen > 0 /\ 10 * reachable < 7 * gridW * gridH

\* totalOpen > 0 && reachable / totalOpen < 0.7
UnreachableIssue(reachable, totalOpen) ==
    totalOpen > 0 /\ 10 * reachable < 7 * totalOpen

Quadrants ==
    << [name |-> "NW", minX |-> -validatorHalfX, maxX |-> 0,
                       minZ |-> -validatorHalfZ, maxZ |-> 0],
       [name |-> "NE", minX |-> 0, maxX |-> validatorHalfX,
                       minZ |-> -validatorHalfZ, maxZ |-> 0],
       [name |-> "SW", minX |-> -validatorHalfX, maxX |-> 0,
                       minZ |-> 0, maxZ |-> validatorHalfZ],
       [name |-> "SE", minX |-> 0, maxX |-> validatorHalfX,
                       minZ |-> 0, maxZ |-> validatorHalfZ] >>

\* ox * oz: the area a box shares with a quadrant
QuadOverlapArea(a, quad) ==
    Max(0, Min(a.maxX, quad.maxX) - Max(a.minX, quad.minX))
        * Max(0, Min(a.maxZ, quad.maxZ) - Max(a.minZ, quad.minZ))

\* coveredArea of a quadrant: the boxes from index i on, flagged ones skipped
RECURSIVE CoveredAreaFrom(_, _, _, _)
CoveredAreaFrom(boxes, ids, quad, i) ==
    IF i > Len(boxes) THEN 0
    ELSE (IF boxes[i].id \in ids THEN 0 ELSE QuadOverlapArea(boxes[i].aabb, quad))
         + CoveredAreaFrom(boxes, ids, quad, i + 1)

CoveredArea(boxes, ids, quad) == CoveredAreaFrom(boxes, ids, quad, 1)

\* quadArea > 0 && coveredArea / quadArea > 0.6
DensityIssue(covered, quad) ==
    LET quadArea == (quad.maxX - quad.minX) * (quad.maxZ - quad.minZ)
    IN  quadArea > 0 /\ 10 * covered > 6 * quadArea

\* the "density" issues pushed by the loop over the quadrants from q on
RECURSIVE DensityIssuesFrom(_, _, _)
DensityIssuesFrom(boxes, ids, q) ==
    IF q > Len(Quadrants) THEN << >>
    ELSE (IF DensityIssue(CoveredArea(boxes, ids, Quadrants[q]), Quadrants[q])
          THEN << [type |-> "density", quadrant |-> Quadrants[q].name] >>
          ELSE << >>)
         \o DensityIssuesFrom(boxes, ids, q + 1)

\* the cells of `open` joined to the cells of `seen` by a chain of cells of
\* `open` that share an edge; `frontier` are the cells added last
RECURSIVE Grow(_, _, _)
Grow(open, frontier, seen) ==
    LET next == { d \in open \ seen :
                    \E c \in frontier :
                        \/ c[1] = d[1] /\ Abs(c[2] - d[2]) = 1
                        \/ c[2] = d[2] /\ Abs(c[1] - d[1]) = 1 }
    IN  IF next = {} THEN seen ELSE Grow(open, next, seen \cup next)

ConnectedComponent(open, seed) == Grow(open, {seed}, {seed})

\* ------------------------------------------------------------------------
\* Initial state: a request, nothing built
\* ------------------------------------------------------------------------
Init ==
    /\ templateName \in TemplateNames \cup {"unknown"}
    /\ arena \in Arenas
    /\ enemies \in EnemyLists
    /\ pickups \in PickupLists
    /\ pc = "idle"
    /\ callNo = 1
    /\ playerSpawn = Vec3(0, 0, 0)
    /\ coverObjects = << >>
    /\ wallEntities = << >>
    /\ adjustedEnemies = << >>
    /\ adjustedPickups = << >>
    /\ decorations = << >>
    /\ usedCapacity = << >>
    /\ enemyIdx = 0
    /\ hintOf = << >>
    /\ pickupHintOf = << >>
    /\ shared = {}
    /\ overlapIds = {}
    /\ issues = << >>
    /\ allBoxes = << >>
    /\ blocked = {}
    /\ visited = {}
    /\ stack = << >>
    /\ pops = 0
    /\ quadCoverage = << >>
    /\ firstResult = << >>

\* ------------------------------------------------------------------------
\* LayoutEngine.build, step by step
\* ------------------------------------------------------------------------
\* an unknown-template result that drops the request's enemies and pickups
EmptyLayoutNoEntities(reqEnemies, reqPickups) ==
    [ coverObjects |-> << >>, wallEntities |-> << >>,
      adjustedEnemies |-> << >>, adjustedPickups |-> << >>,
      decorations |-> << >>, playerSpawn |-> Vec3(0, 0, 0) ]

\* what the unknown-template branch returns
EmptyLayout(reqEnemies, reqPickups) ==
    [ coverObjects |-> << >>, wallEntities |-> << >>,
      adjustedEnemies |-> reqEnemies, adjustedPickups |-> reqPickups,
      decorations |-> << >>, playerSpawn |-> Vec3(0, 0, 0) ]

Returned(r) == IF callNo = 1 THEN r ELSE firstResult

\* unknown template name: warn and return the empty layout
BuildUnknownTemplate ==
    /\ pc = "idle"
    /\ ~Registered
    /\ LET r == EmptyLayout(enemies, pickups)
       IN  /\ coverObjects' = r.coverObjects
           /\ wallEntities' = r.wallEntities
           /\ adjustedEnemies' = r.adjustedEnemies
           /\ adjustedPickups' = r.adjustedPickups
           /\ decorations' = r.decorations
           /\ playerSpawn' = r.playerSpawn
           /\ firstResult' = Returned(r)
    /\ shared' = RequestArrays
    /\ pc' = "built"
    /\ UNCHANGED << request, callNo, usedCapacity, enemyIdx, hintOf, pickupHintOf,
                    validation >>

\* 1. player spawn
ComputePlayerSpawn ==
    /\ pc = "idle"
    /\ Registered
    /\ LET spawnWorld == toWorld(template.playerSpawn.nx, template.playerSpawn.nz)
       IN  playerSpawn' = Vec3(spawnWorld.x, 0, spawnWorld.z)
    /\ pc' = "cover"
    /\ UNCHANGED << request, callNo, coverObjects, wallEntities, adjustedEnemies,
                    adjustedPickups, decorations, usedCapacity, enemyIdx, hintOf,
                    pickupHintOf, shared, validation, firstResult >>

\* 2. cover objects from clusters
GenerateCoverObjects ==
    /\ pc = "cover"
    /\ coverObjects' = generateCoverObjects(template)
    /\ pc' = "walls"
    /\ UNCHANGED << request, callNo, playerSpawn, wallEntities, adjustedEnemies,
                    adjustedPickups, decorations, usedCapacity, enemyIdx, hintOf,
                    pickupHintOf, shared, validation, firstResult >>

\* 3. wall lines
TileWallLines ==
    /\ pc = "walls"
    /\ wallEntities' = tileWallLines(template)
    /\ pc' = "enemies"
    /\ UNCHANGED << request, callNo, playerSpawn, coverObjects, adjustedEnemies,
                    adjustedPickups, decorations, usedCapacity, enemyIdx, hintOf,
                    pickupHintOf, shared, validation, firstResult >>

\* 4. placeEnemies: copy of the request, fresh capacity map
PlaceEnemiesBegin ==
    /\ pc = "enemies"
    /\ adjustedEnemies' = CloneEnemies(enemies)
    /\ usedCapacity' = NewUsedCapacity(template.enemyHints)
    /\ enemyIdx' = 0
    /\ hintOf' = << >>
    /\ shared' = FreshArray("enemies", shared)
    /\ pc' = "enemyLoop"
    /\ UNCHANGED << request, callNo, playerSpawn, coverObjects, wallEntities,
                    adjustedPickups, decorations, pickupHintOf, validation,
                    firstResult >>

\* one iteration of the loop over the copied enemies
PlaceEnemy ==
    /\ pc = "enemyLoop"
    /\ enemyIdx < Len(adjustedEnemies)
    /\ LET enemy   == adjustedEnemies[enemyIdx + 1]
           hints   == template.enemyHints
           hintIdx == findBestHint(hints, usedCapacity, enemy.aiType)
       IN  IF hintIdx >= 0 /\ Len(hints[hintIdx + 1].offsets) = 0
           THEN \* offsets[NaN] is undefined: reading offset.nx throws a TypeError
                /\ pc' = "threw"
                /\ UNCHANGED << enemies, adjustedEnemies, usedCapacity, enemyIdx,
                                hintOf >>
           ELSE LET used   == IF hintIdx >= 0 THEN usedCapacity[hintIdx] ELSE 0
                    placed == IF hintIdx >= 0
                              THEN [enemy EXCEPT !.position =
                                        HintPosition(hints[hintIdx + 1], used)]
                              ELSE enemy
                    moved  == [placed EXCEPT !.position =
                                  EnforceSpawnDistance(placed.position, playerSpawn)]
                IN  /\ adjustedEnemies' =
                          [adjustedEnemies EXCEPT ![enemyIdx + 1] =
                              regenerateBehaviorPaths(moved, template)]
                    /\ enemies' = WriteThrough("enemies", shared, enemies,
                                               adjustedEnemies')
                    /\ usedCapacity' = IF hintIdx >= 0
                                       THEN [usedCapacity EXCEPT ![hintIdx] = used + 1]
                                       ELSE usedCapacity
                    /\ hintOf' = Append(hintOf, hintIdx)
                    /\ enemyIdx' = enemyIdx + 1
                    /\ pc' = pc
    /\ UNCHANGED << templateName, arena, pickups, callNo, playerSpawn, coverObjects,
                    wallEntities, adjustedPickups, decorations, pickupHintOf, shared,
                    validation, firstResult >>

\* 5. pickups
PlacePickups ==
    /\ pc = "enemyLoop"
    /\ enemyIdx = Len(adjustedEnemies)
    /\ adjustedPickups' = placePickups(template, pickups)
    /\ pickupHintOf' = PickupHintsFrom(template, pickups, 1, {})
    /\ shared' = FreshArray("pickups", shared)
    /\ pickups' = WriteThrough("pickups", shared', pickups, adjustedPickups')
    /\ pc' = "decor"
    /\ UNCHANGED << templateName, arena, enemies, callNo, playerSpawn, coverObjects,
                    wallEntities, adjustedEnemies, decorations, usedCapacity, enemyIdx,
                    hintOf, validation, firstResult >>

\* 6. decorations
GenerateDecorations ==
    /\ pc = "decor"
    /\ decorations' = generateDecorations(template)
    /\ pc' = "density"
    /\ UNCHANGED << request, callNo, playerSpawn, coverObjects, wallEntities,
                    adjustedEnemies, adjustedPickups, usedCapacity, enemyIdx, hintOf,
                    pickupHintOf, shared, validation, firstResult >>

\* 7. density enforcement, and build returns
EnforceDensity ==
    /\ pc = "density"
    /\ coverObjects' = enforceDensity(coverObjects)
    /\ firstResult' = Returned([LayoutResult EXCEPT !.coverObjects = coverObjects'])
    /\ pc' = "built"
    /\ UNCHANGED << request, callNo, playerSpawn, wallEntities, adjustedEnemies,
                    adjustedPickups, decorations, usedCapacity, enemyIdx, hintOf,
                    pickupHintOf, shared, validation >>

\* ------------------------------------------------------------------------
\* loadSpec: validateLayout on the returned layout
\* ------------------------------------------------------------------------
\* The overlap check and the auto-remove, which are all that validateLayout
\* changes in the layout. Its reachability and density passes only read the
\* layout and add issues; they are followed statement by statement in
\* ValidatorSpec.
ValidateLayout ==
    /\ pc = "built"
    /\ LET boxes == AllBoxes(coverObjects, wallEntities)
           pass  == OverlapPass(boxes)
       IN  /\ overlapIds' = pass.ids
           /\ issues' = pass.issues
           /\ coverObjects' = RemoveFlagged(coverObjects, pass.ids)
    /\ pc' = "validated"
    /\ UNCHANGED << request, callNo, playerSpawn, wallEntities, adjustedEnemies,
                    adjustedPickups, decorations, usedCapacity, enemyIdx, hintOf,
                    pickupHintOf, shared, fill, firstResult >>

\* the same request is built a second time
BuildAgain ==
    /\ pc = "validated"
    /\ callNo = 1
    /\ callNo' = 2
    /\ pc' = "idle"
    /\ UNCHANGED << request, result, usedCapacity, enemyIdx, hintOf, pickupHintOf,
                    shared, validation, firstResult >>

Next ==
    \/ BuildUnknownTemplate
    \/ ComputePlayerSpawn
    \/ GenerateCoverObjects
    \/ TileWallLines
    \/ PlaceEnemiesBegin
    \/ PlaceEnemy
    \/ PlacePickups
    \/ GenerateDecorations
    \/ EnforceDensity
    \/ ValidateLayout
    \/ BuildAgain

Spec == Init /\ [][Next]_vars

\* The same program run on requests with paths of their own and more pickups
RequestInit ==
    /\ templateName \in TemplateNames \cup {"unknown"}
    /\ arena \in Arenas
    /\ enemies \in RunEnemyLists
    /\ pickups \in RunPickupLists
    /\ pc = "idle"
    /\ callNo = 1
    /\ playerSpawn = Vec3(0, 0, 0)
    /\ coverObjects = << >>
    /\ wallEntities = << >>
    /\ adjustedEnemies = << >>
    /\ adjustedPickups = << >>
    /\ decorations = << >>
    /\ usedCapacity = << >>
    /\ enemyIdx = 0
    /\ hintOf = << >>
    /\ pickupHintOf = << >>
    /\ shared = {}
    /\ overlapIds = {}
    /\ issues = << >>
    /\ allBoxes = << >>
    /\ blocked = {}
    /\ visited = {}
    /\ stack = << >>
    /\ pops = 0
    /\ quadCoverage = << >>
    /\ firstResult = << >>

RequestSpec == RequestInit /\ [][Next]_vars

\* The same program run on the edge template, in a mid-sized and a small arena
EdgeArenas ==
    { [x |-> 20, z |-> 20, hasTheme |-> FALSE, themeTags |-> {}],
      [x |-> 10, z |-> 10, hasTheme |-> FALSE, themeTags |-> {}] }

EdgeInit ==
    /\ templateName \in EdgeTemplateNames \cup {"unknown"}
    /\ arena \in EdgeArenas
    /\ enemies \in RunEnemyLists
    /\ pickups \in PickupLists
    /\ pc = "idle"
    /\ callNo = 1
    /\ playerSpawn = Vec3(0, 0, 0)
    /\ coverObjects = << >>
    /\ wallEntities = << >>
    /\ adjustedEnemies = << >>
    /\ adjustedPickups = << >>
    /\ decorations = << >>
    /\ usedCapacity = << >>
    /\ enemyIdx = 0
    /\ hintOf = << >>
    /\ pickupHintOf = << >>
    /\ shared = {}
    /\ overlapIds = {}
    /\ issues = << >>
    /\ allBoxes = << >>
    /\ blocked = {}
    /\ visited = {}
    /\ stack = << >>
    /\ pops = 0
    /\ quadCoverage = << >>
    /\ firstResult = << >>

EdgeSpec == EdgeInit /\ [][Next]_vars

\* ------------------------------------------------------------------------
\* validateLayout, statement by statement
\* ------------------------------------------------------------------------
GridW == 3

\* small arenas, two cells deep, for layouts given to validateLayout directly
GridArenas ==
    { [x |-> w, z |-> 2, hasTheme |-> FALSE, themeTags |-> {}] : w \in 1..GridW }

\* a cover of the asset standing on the centre of cell number c (row-major)
\* of arena a
GridCover(a, assetId, c, k) ==
    [ id       |-> <<"layout-cover", k>>,
      position |-> Vec3(100 * (c % a.x) + 50 - 50 * a.x, 0,
                        100 * (c \div a.x) + 50 - 50 * a.z),
      size     |-> DimsOr(assetId, Dims(100, 100, 100)),
      assetId  |-> assetId ]

\* cover lists: columns (0.5 m) or blocks (1 m) on any set of cells
GridCoverLists(a) ==
    { [k \in 1..Cardinality(S) |->
          GridCover(a, asset,
                    CHOOSE c \in S : Cardinality({ d \in S : d <= c }) = k, k - 1)] :
      S \in SUBSET (0..(a.x * a.z - 1)), asset \in {"kenney_column", "kenney_block"} }

\* player spawns: any cell centre, and a point beyond each end of the arena
GridSpawns(a) ==
    { Vec3(100 * gx + 50 - 50 * a.x, 0, 100 * gz + 50 - 50 * a.z) :
        gx \in 0..(a.x - 1), gz \in 0..(a.z - 1) }
    \cup { Vec3(-100 * a.x, 0, -100 * a.z), Vec3(100 * a.x, 0, 100 * a.z) }

\* the arguments of validateLayout: what build returns for a template and an
\* arena, or a layout on a small grid
ValidatorInit ==
    /\ \/ /\ templateName \in TemplateNames \cup EdgeTemplateNames
          /\ arena \in Arenas \cup EdgeArenas
          /\ playerSpawn = LET spawnWorld == toWorld(template.playerSpawn.nx,
                                                     template.playerSpawn.nz)
                           IN  Vec3(spawnWorld.x, 0, spawnWorld.z)
          /\ coverObjects = enforceDensity(generateCoverObjects(template))
          /\ wallEntities = tileWallLines(template)
       \/ /\ templateName = "none"
          /\ arena \in GridArenas
          /\ playerSpawn \in GridSpawns(arena)
          /\ coverObjects \in GridCoverLists(arena)
          /\ wallEntities = << >>
    /\ enemies = << >>
    /\ pickups = << >>
    /\ pc = "built"
    /\ callNo = 1
    /\ adjustedEnemies = << >>
    /\ adjustedPickups = << >>
    /\ decorations = << >>
    /\ usedCapacity = << >>
    /\ enemyIdx = 0
    /\ hintOf = << >>
    /\ pickupHintOf = << >>
    /\ shared = {}
    /\ overlapIds = {}
    /\ issues = << >>
    /\ allBoxes = << >>
    /\ blocked = {}
    /\ visited = {}
    /\ stack = << >>
    /\ pops = 0
    /\ quadCoverage = << >>
    /\ firstResult = [ coverObjects |-> coverObjects, wallEntities |-> wallEntities,
                       adjustedEnemies |-> << >>, adjustedPickups |-> << >>,
                       decorations |-> << >>, playerSpawn |-> playerSpawn ]

\* collect the boxes, 1. overlap check, auto-remove
ValidateOverlaps ==
    /\ pc = "built"
    /\ LET boxes == AllBoxes(coverObjects, wallEntities)
           pass  == OverlapPass(boxes)
       IN  /\ allBoxes' = boxes
           /\ overlapIds' = pass.ids
           /\ issues' = pass.issues
           /\ coverObjects' = RemoveFlagged(coverObjects, pass.ids)
    /\ pc' = "raster"
    /\ UNCHANGED << request, callNo, playerSpawn, wallEntities, adjustedEnemies,
                    adjustedPickups, decorations, usedCapacity, enemyIdx, hintOf,
                    pickupHintOf, shared, blocked, visited, stack, pops,
                    quadCoverage, firstResult >>

\* 2. the blocked grid
RasterizeBlocked ==
    /\ pc = "raster"
    /\ blocked' = BlockedCells(allBoxes, overlapIds)
    /\ pc' = "seed"
    /\ UNCHANGED << request, callNo, result, usedCapacity, enemyIdx, hintOf,
                    pickupHintOf, shared, overlapIds, issues, allBoxes, visited,
                    stack, pops, quadCoverage, firstResult >>

\* the spawn cell is pushed and marked unless it is blocked
SeedFloodFill ==
    /\ pc = "seed"
    /\ LET spawn == SpawnCell(playerSpawn)
       IN  IF spawn \notin blocked
           THEN stack' = << spawn >> /\ visited' = { spawn }
           ELSE stack' = << >> /\ visited' = {}
    /\ pops' = 0
    /\ pc' = "flood"
    /\ UNCHANGED << request, callNo, result, usedCapacity, enemyIdx, hintOf,
                    pickupHintOf, shared, overlapIds, issues, allBoxes, blocked,
                    quadCoverage, firstResult >>

\* one iteration of the fill loop
FloodFillStep ==
    /\ pc = "flood"
    /\ Len(stack) > 0
    /\ LET after == FloodStep(stack, visited, blocked)
       IN  /\ stack' = after.stack
           /\ visited' = after.visited
    /\ pops' = pops + 1
    /\ pc' = pc
    /\ UNCHANGED << request, callNo, result, usedCapacity, enemyIdx, hintOf,
                    pickupHintOf, shared, overlapIds, issues, allBoxes, blocked,
                    quadCoverage, firstResult >>

\* the fill loop has ended: count reachable against open cells
CountReachable ==
    /\ pc = "flood"
    /\ Len(stack) = 0
    /\ LET totalOpen == Cardinality(Cells \ blocked)
           reachable == Cardinality({ c \in Cells \ blocked : c \in visited })
       IN  issues' = IF UnreachableIssue(reachable, totalOpen)
                     THEN Append(issues, [type |-> "unreachable"])
                     ELSE issues
    /\ pc' = "quadrants"
    /\ UNCHANGED << request, callNo, result, usedCapacity, enemyIdx, hintOf,
                    pickupHintOf, shared, overlapIds, fill, firstResult >>

\* 3. quadrant density, and validateLayout returns the issues
CheckQuadrantDensity ==
    /\ pc = "quadrants"
    /\ quadCoverage' = [q \in DOMAIN Quadrants |->
                           CoveredArea(allBoxes, overlapIds, Quadrants[q])]
    /\ issues' = issues \o DensityIssuesFrom(allBoxes, overlapIds, 1)
    /\ pc' = "validated"
    /\ UNCHANGED << request, callNo, result, usedCapacity, enemyIdx, hintOf,
                    pickupHintOf, shared, overlapIds, allBoxes, blocked, visited,
                    stack, pops, firstResult >>

ValidatorNext ==
    \/ ValidateOverlaps
    \/ RasterizeBlocked
    \/ SeedFloodFill
    \/ FloodFillStep
    \/ CountReachable
    \/ CheckQuadrantDensity

ValidatorSpec == ValidatorInit /\ [][ValidatorNext]_vars

\* validateLayout is straight-line synchronous code: whatever statement is
\* next is executed
ValidatorLiveSpec == ValidatorSpec /\ WF_vars(ValidatorNext)

\* ------------------------------------------------------------------------
\* Properties
\* ------------------------------------------------------------------------
BuildReturned == pc = "built"
Validated == pc = "validated"
HintIndices == 0..(Len(template.enemyHints) - 1)

\* C1: every enemy in adjustedEnemies returned by build for a registered
\* template is at XZ distance >= 10 m from the returned playerSpawn, the
\* enemies repositioned to 12 m and re-clamped included.  Stated for arenas
\* of 20 m and more, where points 10 m from the spawn exist inside the clamp.
SpawnDistanceInvariant ==
    (BuildReturned /\ Registered /\ arena.x >= 20) =>
        \A i \in DOMAIN adjustedEnemies :
            DistSq(adjustedEnemies[i].position, playerSpawn) >= 1000 * 1000

\* C2: after validateLayout, no two cover objects left in coverObjects have
\* intersecting axis-aligned bounding boxes.
NoCoverOverlap ==
    Validated =>
        \A i, j \in DOMAIN coverObjects :
            i < j => ~aabbIntersects(
                        entityToAABB(coverObjects[i].position, coverObjects[i].assetId),
                        entityToAABB(coverObjects[j].position, coverObjects[j].assetId))

\* C2 witness: validateLayout removed a flagged cover and at least two remain
CoverPruned ==
    /\ Validated
    /\ \E id \in overlapIds : id[1] = "layout-cover"
    /\ Len(coverObjects) >= 2
    /\ Len(coverObjects) < Len(firstResult.coverObjects)

\* C3: in a validated result no two retained boxes overlap, be they covers
\* or walls.
NoRetainedBoxOverlap ==
    Validated =>
        LET boxes == AllBoxes(coverObjects, wallEntities)
        IN  \A i, j \in DOMAIN boxes :
                i < j => ~aabbIntersects(boxes[i].aabb, boxes[j].aabb)

RECURSIVE SumFootprint(_, _)
SumFootprint(covers, i) ==
    IF i > Len(covers) THEN 0 ELSE Footprint(covers[i]) + SumFootprint(covers, i + 1)

\* C4: after enforceDensity (in every build result and after validateLayout)
\* the footprints of the covers left sum to at most 0.3 x arenaSizeX x arenaSizeZ.
DensityInvariant ==
    (BuildReturned \/ Validated) =>
        10 * SumFootprint(coverObjects, 1) <= 3 * sX * sZ

\* C4 witness: enforceDensity cut covers off and kept others
DensityCut ==
    /\ BuildReturned
    /\ Registered
    /\ Len(coverObjects) > 0
    /\ Len(coverObjects) < Len(generateCoverObjects(template))

InMargin(pos) ==
    Abs(pos.x) * 2 <= sX - 2 * margin /\ Abs(pos.z) * 2 <= sZ - 2 * margin

\* C5: every object of a validated result (cover, wall, decoration, adjusted
\* enemy, adjusted pickup) has |x| <= arenaSizeX/2 - 1.5 and
\* |z| <= arenaSizeZ/2 - 1.5, enemies without a hint included.
BoundsInvariant ==
    (Validated /\ Registered) =>
        /\ \A i \in DOMAIN coverObjects : InMargin(coverObjects[i].position)
        /\ \A i \in DOMAIN wallEntities : InMargin(wallEntities[i].position)
        /\ \A i \in DOMAIN decorations : InMargin(decorations[i].position)
        /\ \A i \in DOMAIN adjustedEnemies : InMargin(adjustedEnemies[i].position)
        /\ \A i \in DOMAIN adjustedPickups : InMargin(adjustedPickups[i].position)

\* number of the first n processed enemies that were assigned to hint h
AssignedTo(h, n) == Cardinality({ j \in 1..n : hintOf[j] = h })

\* C6: during placeEnemies, after any number of enemies, no hint holds more
\* directly assigned enemies than its capacity, and an enemy processed when
\* every hint was at capacity was assigned to no hint.
HintCapacityRespected ==
    (Registered /\ pc = "enemyLoop") =>
        /\ \A h \in HintIndices :
              /\ usedCapacity[h] = AssignedTo(h, Len(hintOf))
              /\ usedCapacity[h] <= template.enemyHints[h + 1].capacity
        /\ \A i \in DOMAIN hintOf :
              (\A h \in HintIndices :
                  AssignedTo(h, i - 1) >= template.enemyHints[h + 1].capacity)
              => hintOf[i] = -1

\* C6 witness: a hint filled up to its capacity and a later enemy got no hint
HintsExhausted ==
    /\ Registered
    /\ pc = "enemyLoop"
    /\ \E i \in DOMAIN hintOf : hintOf[i] = -1
    /\ \E h \in HintIndices : usedCapacity[h] = template.enemyHints[h + 1].capacity
                              /\ usedCapacity[h] > 0

\* C7: one hint with 1 offset and capacity 2, two chase enemies (20 m arena,
\* where neither clamping nor the spawn-distance rule applies): the first
\* enemy is at the offset's world position, the second 2 m away from it.
SecondEnemyNudged ==
    ( /\ templateName = "duo"
      /\ arena.x = 20
      /\ pc = "enemyLoop"
      /\ enemyIdx = 2
      /\ \A i \in 1..2 : enemies[i].aiType = "chase" ) =>
        LET offset == template.enemyHints[1].offsets[1]
            at     == toWorld(offset.nx, offset.nz)
        IN  /\ adjustedEnemies[1].position = Vec3(at.x, 0, at.z)
            /\ DistSq(adjustedEnemies[2].position, adjustedEnemies[1].position)
                 = 200 * 200

\* C8 as claimed: for an unknown template name build returns a result whose
\* lists, adjustedEnemies and adjustedPickups included, are all empty.
UnknownTemplateAllEmpty ==
    (BuildReturned /\ ~Registered) =>
        /\ coverObjects = << >> /\ wallEntities = << >> /\ decorations = << >>
        /\ adjustedEnemies = << >> /\ adjustedPickups = << >>
        /\ playerSpawn = Vec3(0, 0, 0)

\* C8 amended: for an unknown template name build does not fail and returns
\* empty coverObjects, wallEntities and decorations and playerSpawn (0,0,0);
\* adjustedEnemies and adjustedPickups are the request's enemies and pickups,
\* unchanged.
UnknownTemplatePassThrough ==
    /\ ~Registered => pc # "threw"
    /\ (BuildReturned /\ ~Registered) =>
          /\ coverObjects = << >> /\ wallEntities = << >> /\ decorations = << >>
          /\ adjustedEnemies = enemies /\ adjustedPickups = pickups
          /\ playerSpawn = Vec3(0, 0, 0)

\* C8 witness: an unknown template name with enemies and pickups requested
UnknownTemplateBuilt ==
    BuildReturned /\ ~Registered /\ Len(enemies) > 0 /\ Len(pickups) > 0

\* C9: a template with a zero-length wall line and a hint whose offsets list
\* is empty never makes build raise an error.
NoFatalErrorOnDegenerate == templateName = "degenerate" => pc # "threw"

\* C10: the second build of the same request returns a result equal to the
\* one the first build returned.
Determinism == (callNo = 2 /\ BuildReturned) => LayoutResult = firstResult

\* C10 witness: a second build returned, for a request with enemies and
\* pickups whose first result had covers pruned by validateLayout
SecondBuildReturned ==
    /\ callNo = 2
    /\ BuildReturned
    /\ Registered
    /\ Len(enemies) > 0 /\ Len(pickups) > 0
    /\ overlapIds # {}
    /\ \E i \in DOMAIN hintOf : hintOf[i] >= 0

\* the wall lines of the template whose world length is at least 0.1 m
TiledLines ==
    { l \in DOMAIN template.wallLines :
        LET a == toWorld(template.wallLines[l].start.nx, template.wallLines[l].start.nz)
            b == toWorld(template.wallLines[l].end.nx, template.wallLines[l].end.nz)
        IN  Isqrt((b.x - a.x) * (b.x - a.x) + (b.z - a.z) * (b.z - a.z)) >= 10 }

\* world length, segment width and candidate count of wall line l
LineGeometry(l) ==
    LET line == template.wallLines[l]
        a    == toWorld(line.start.nx, line.start.nz)
        b    == toWorld(line.end.nx, line.end.nz)
        len  == Isqrt((b.x - a.x) * (b.x - a.x) + (b.z - a.z) * (b.z - a.z))
        w    == IF KnownAsset(line.assetId) THEN ASSET_DIMS(line.assetId).w ELSE 200
        q    == (2 * len + w) \div (2 * w)
    IN  [a |-> a, b |-> b, len |-> len, w |-> w, n |-> IF q < 1 THEN 1 ELSE q]

\* centre of candidate i of wall line l: (i + 0.5) x L / n along the line
CandidateCentre(l, i) ==
    LET g == LineGeometry(l)
    IN  Vec3(g.a.x + RoundDiv((g.b.x - g.a.x) * (2 * i + 1), 2 * g.n), 0,
             g.a.z + RoundDiv((g.b.z - g.a.z) * (2 * i + 1), 2 * g.n))

\* candidate i of line l is within 0.6 w of a gap distance (fraction x L);
\* distances along the line are multiplied by 200 n
NearGap(l, i) ==
    LET g    == LineGeometry(l)
        gaps == template.wallLines[l].gaps
    IN  \E k \in DOMAIN gaps :
            /\ 100 * (2 * i + 1) * g.len - 2 * g.n * gaps[k] * g.len < 120 * g.n * g.w
            /\ 2 * g.n * gaps[k] * g.len - 100 * (2 * i + 1) * g.len < 120 * g.n * g.w

\* the candidates of line l that the claim says are emitted
EmittedCandidates(l) ==
    { i \in 0..(LineGeometry(l).n - 1) :
        /\ ~NearGap(l, i)
        /\ 2 * Abs(CandidateCentre(l, i).x) < sX - 300
        /\ 2 * Abs(CandidateCentre(l, i).z) < sZ - 300 }

\* C11: tileWallLines emits, for each wall line of length >= 0.1 m, exactly
\* the in-bounds candidates among max(1, round(L/w)) whose centre (i+0.5)L/n
\* is not within 0.6 w of a gap distance; a 10 m line with w = 2 m and
\* gaps = [0.5] (the "duo" template in a 20 m arena) has 5 candidates and
\* yields 4 wall entities, the middle one being suppressed.
WallTilingExact ==
    (Registered /\ pc = "enemies") =>
        LET expected == UNION { { CandidateCentre(l, i) : i \in EmittedCandidates(l) } :
                                l \in TiledLines }
        IN  /\ { wallEntities[k].position : k \in DOMAIN wallEntities } = expected
            /\ Len(wallEntities) = Cardinality(expected)
            /\ (templateName = "duo" /\ arena.x = 20) =>
                  /\ LineGeometry(2).len = 1000 /\ LineGeometry(2).n = 5
                  /\ EmittedCandidates(2) = {0, 1, 3, 4}
                  /\ Len(wallEntities) = 4

\* C11 witness: the 10 m line with a mid gap was tiled and left walls on both
\* sides of the gap
GapLineTiled ==
    /\ templateName = "duo" /\ arena.x = 20 /\ pc = "enemies"
    /\ \E k \in DOMAIN wallEntities : wallEntities[k].position.x < 0
    /\ \E k \in DOMAIN wallEntities : wallEntities[k].position.x > 0

\* width x depth of the first m covers of a list, summed (cm^2)
RECURSIVE PrefixArea(_, _)
PrefixArea(covers, m) ==
    IF m = 0 THEN 0
    ELSE PrefixArea(covers, m - 1) + covers[m].size.w * covers[m].size.d

\* length of the longest prefix whose cumulative footprint is within
\* 0.3 x arena floor area
BudgetPrefix(covers) ==
    CHOOSE m \in 0..Len(covers) :
        /\ 10 * PrefixArea(covers, m) <= 3 * sX * sZ
        /\ \A k \in (m + 1)..Len(covers) : 10 * PrefixArea(covers, k) > 3 * sX * sZ

\* C12: enforceDensity keeps exactly the longest prefix of the placement-order
\* list whose cumulative footprint is <= 0.3 x arena floor area, in unchanged
\* order; everything from the first piece that exceeds the budget on is removed.
DensityPrefixCutoff ==
    (BuildReturned /\ Registered) =>
        LET placed == generateCoverObjects(template)
        IN  coverObjects = SubSeq(placed, 1, BudgetPrefix(placed))

\* C12 witness: covers were cut although a later, smaller piece would have
\* fitted in the budget left by the kept prefix
SmallerPieceCutToo ==
    /\ BuildReturned /\ Registered
    /\ LET placed == generateCoverObjects(template)
           kept   == Len(coverObjects)
       IN  /\ 0 < kept /\ kept < Len(placed)
           /\ \E j \in (kept + 2)..Len(placed) :
                 10 * (PrefixArea(placed, kept) + placed[j].size.w * placed[j].size.d)
                     <= 3 * sX * sZ

\* C13: validateLayout is advisory.  Whatever layout it is given it returns
\* (the step ends in "validated", never in an error), and the only state it
\* changes is coverObjects, which loses exactly the flagged covers: the ones
\* left keep their order and fields; wallEntities, the arena, playerSpawn and
\* the rest of the layout and of the request are unchanged.
ValidateOnlyPrunesCovers ==
    [][ (pc = "built" /\ pc' # "built") =>
          /\ pc' = "validated"
          /\ coverObjects' = SelectSeq(coverObjects, LAMBDA c : c.id \notin overlapIds')
          /\ wallEntities' = wallEntities
          /\ arena' = arena
          /\ playerSpawn' = playerSpawn
          /\ UNCHANGED << templateName, enemies, pickups, adjustedEnemies,
                          adjustedPickups, decorations >> ]_vars

\* C13 witness: validateLayout returned issues and removed a cover from the
\* middle of the list, an unflagged cover following it
PrunedMidList ==
    /\ Validated
    /\ Len(issues) > 0
    /\ \E i \in DOMAIN firstResult.coverObjects :
          /\ i < Len(firstResult.coverObjects)
          /\ firstResult.coverObjects[i].id \in overlapIds
          /\ firstResult.coverObjects[i + 1].id \notin overlapIds
    /\ callNo = 1

\* C14: build never modifies its request.  No step of build, for a known or
\* an unknown template name, changes the caller's enemies and pickups lists
\* (positions, patrol paths, guard positions): placement is done on copies.
RequestUntouched ==
    [][enemies' = enemies /\ pickups' = pickups]_vars

\* C14 witness: build returned for a registered template with enemies and
\* pickups moved in the result, none of the result arrays being the request's
PlacedOnCopies ==
    /\ BuildReturned /\ Registered
    /\ shared = {}
    /\ \E i \in DOMAIN enemies : adjustedEnemies[i].position # enemies[i].position
    /\ \E i \in DOMAIN enemies : adjustedEnemies[i].patrolPath # enemies[i].patrolPath
    /\ \E i \in DOMAIN pickups : adjustedPickups[i].position # pickups[i].position

\* the hints with remaining capacity when the i-th enemy is processed
AvailableFor(i) ==
    { h \in HintIndices : AssignedTo(h, i - 1) < template.enemyHints[h + 1].capacity }

\* 1 (base) + 2 if the enemy's AI type is preferred + 1 if the hint is unused
ClaimedScore(h, i) ==
    1 + (IF enemies[i].aiType \in template.enemyHints[h + 1].preferredAI THEN 2 ELSE 0)
      + (IF AssignedTo(h, i - 1) = 0 THEN 1 ELSE 0)

\* C15: for each enemy findBestHint returns the lowest-index hint, among the
\* hints whose assignment count is below capacity, that maximises
\* 1 + 2 (AI type preferred) + 1 (hint unused); it returns no hint exactly
\* when every hint is at capacity.
BestHintChosen ==
    (Registered /\ pc = "enemyLoop") =>
        \A i \in DOMAIN hintOf :
            IF AvailableFor(i) = {} THEN hintOf[i] = -1
            ELSE /\ hintOf[i] \in AvailableFor(i)
                 /\ \A h \in AvailableFor(i) :
                       /\ ClaimedScore(h, i) <= ClaimedScore(hintOf[i], i)
                       /\ h < hintOf[i] => ClaimedScore(h, i) < ClaimedScore(hintOf[i], i)

\* C15 witness: a later hint beat an available earlier one, and a tie between
\* two available hints went to the earlier
HintWonOnScoreAndOrder ==
    /\ Registered /\ pc = "enemyLoop"
    /\ \E i \in DOMAIN hintOf :
          /\ hintOf[i] > 0
          /\ \E h \in AvailableFor(i) : h < hintOf[i]
    /\ \E i \in DOMAIN hintOf :
          /\ hintOf[i] >= 0
          /\ \E h \in AvailableFor(i) :
                h > hintOf[i] /\ ClaimedScore(h, i) = ClaimedScore(hintOf[i], i)

\* C16: enemies assigned to the same hint fan out: before the spawn-distance
\* rule no two enemies assigned to one hint are given the same position, and
\* an enemy assigned to a hint that already holds as many enemies as it has
\* offsets is nudged sideways by a non-zero amount.  Stated for arenas of
\* 20 m and more, where clamping joins no two positions of the templates.
SameHintEnemiesFanOut ==
    (Registered /\ pc = "enemyLoop" /\ arena.x >= 20) =>
        \A i, j \in DOMAIN hintOf :
            (i < j /\ hintOf[i] >= 0 /\ hintOf[j] = hintOf[i]) =>
                LET hint == template.enemyHints[hintOf[i] + 1]
                    ki   == AssignedTo(hintOf[i], i - 1)
                    kj   == AssignedTo(hintOf[j], j - 1)
                IN  /\ HintPosition(hint, ki) # HintPosition(hint, kj)
                    /\ kj >= Len(hint.offsets)
                          => Nudge(Overflow(kj, Len(hint.offsets))) # 0

PickupHintIndices == 0..(Len(template.pickupHints) - 1)

\* the pickup hints not yet given to one of the first i - 1 pickups
UnusedPickupHints(i) ==
    PickupHintIndices \ { pickupHintOf[j] : j \in 1..(i - 1) }

\* 1 (base) + 2 if the pickup's type is preferred by the hint
ClaimedPickupScore(h, i) ==
    1 + (IF pickups[i].type \in template.pickupHints[h + 1].preferredTypes THEN 2 ELSE 0)

\* C17: placePickups gives each pickup, in input order, the first not-yet-used
\* pickup hint with the highest score (type preferred beats not preferred), so
\* no hint receives two pickups while unused hints remain; once every hint is
\* used each further pickup is placed on hint 0; the pickup is placed at the
\* x, z of the hint it was given.
PickupHintPolicy ==
    (BuildReturned /\ Registered) =>
        /\ Len(pickupHintOf) = Len(pickups)
        /\ \A i \in DOMAIN pickupHintOf :
              LET h == pickupHintOf[i]
              IN  IF PickupHintIndices = {} THEN h = -1
                  ELSE /\ IF UnusedPickupHints(i) = {} THEN h = 0
                          ELSE /\ h \in UnusedPickupHints(i)
                               /\ \A k \in UnusedPickupHints(i) :
                                     /\ ClaimedPickupScore(k, i) <= ClaimedPickupScore(h, i)
                                     /\ k < h => ClaimedPickupScore(k, i)
                                                    < ClaimedPickupScore(h, i)
                       /\ LET hint == template.pickupHints[h + 1]
                              at   == toWorld(hint.nx, hint.nz)
                          IN  /\ adjustedPickups[i].position.x
                                    = Max(-(sX \div 2 - 200), Min(sX \div 2 - 200, at.x))
                              /\ adjustedPickups[i].position.z
                                    = Max(-(sZ \div 2 - 200), Min(sZ \div 2 - 200, at.z))

\* C17 witness: every hint was used and a further pickup went to hint 0,
\* which already held a pickup
PickupHintReused ==
    /\ BuildReturned /\ Registered
    /\ \E i \in DOMAIN pickupHintOf :
          /\ i > 1
          /\ UnusedPickupHints(i) = {}
          /\ pickupHintOf[i] = 0
          /\ \E j \in 1..(i - 1) : pickupHintOf[j] = 0

\* C18 as claimed: an enemy for which no hint had remaining capacity has, in
\* adjustedEnemies, the position it had in the request.
UnhintedKeepsPosition ==
    (BuildReturned /\ Registered) =>
        \A i \in DOMAIN hintOf :
            hintOf[i] = -1 => adjustedEnemies[i].position = enemies[i].position

\* C18 amended: an enemy for which no hint had remaining capacity keeps its
\* request position when that position is at XZ distance >= 10 m from
\* playerSpawn; when it is closer the enemy is moved: it keeps its y, lies
\* within the arena bounds minus 2 m, and is 12 m from playerSpawn unless a
\* clamp brought it to that boundary.
UnhintedKeepsFarPosition ==
    (BuildReturned /\ Registered) =>
        \A i \in DOMAIN hintOf :
            hintOf[i] = -1 =>
                LET from == enemies[i].position
                    to   == adjustedEnemies[i].position
                    d2   == (from.x - playerSpawn.x) * (from.x - playerSpawn.x)
                            + (from.z - playerSpawn.z) * (from.z - playerSpawn.z)
                    e2   == (to.x - playerSpawn.x) * (to.x - playerSpawn.x)
                            + (to.z - playerSpawn.z) * (to.z - playerSpawn.z)
                IN  IF d2 >= 1000 * 1000 THEN to = from
                    ELSE /\ to # from
                         /\ to.y = from.y
                         /\ 2 * Abs(to.x) <= sX - 400 /\ 2 * Abs(to.z) <= sZ - 400
                         /\ \/ (1199 * 1199 <= e2 /\ e2 <= 1201 * 1201)
                            \/ 2 * Abs(to.x) = sX - 400
                            \/ 2 * Abs(to.z) = sZ - 400

\* C18 witness: an enemy that found no hint, with a position of its own that
\* is at least 10 m from the spawn, was returned where the request had it
UnhintedEnemyReturned ==
    /\ BuildReturned /\ Registered
    /\ \E i \in DOMAIN hintOf :
          /\ hintOf[i] = -1
          /\ enemies[i].position # Vec3(0, 0, 0)
          /\ adjustedEnemies[i].position = enemies[i].position

\* C19: each enemy's path is regenerated last, from its final position p (the
\* one returned, after hint placement, clamping and spawn-distance move):
\* patrol: exactly 2 waypoints p - s and p + s on the ground, s of length 3 m
\* and s = (3, 0) when no lane of the template has a direction; guard:
\* guardPosition at p's x, z on the ground and no patrol path; wander: the 4
\* corners (x -+ 4, z -+ 4) of the square centred on p, in loop order.
PathsFromFinalPosition ==
    (Registered /\ pc = "enemyLoop") =>
        \A i \in 1..enemyIdx :
            LET e    == adjustedEnemies[i]
                p    == e.position
                path == e.patrolPath
            IN  /\ e.aiType = "patrol" =>
                      /\ Len(path) = 2
                      /\ path[1].y = 0 /\ path[2].y = 0
                      /\ path[1].x + path[2].x = 2 * p.x
                      /\ path[1].z + path[2].z = 2 * p.z
                      /\ LET s2 == (path[2].x - p.x) * (path[2].x - p.x)
                                   + (path[2].z - p.z) * (path[2].z - p.z)
                         IN  299 * 299 <= s2 /\ s2 <= 301 * 301
                      /\ (\A l \in DOMAIN template.lanes :
                             template.lanes[l].from = template.lanes[l].to)
                           => path = << Vec3(p.x - 300, 0, p.z), Vec3(p.x + 300, 0, p.z) >>
                /\ e.aiType = "guard" =>
                      /\ e.guardPosition = Vec3(p.x, 0, p.z)
                      /\ path = << >>
                /\ e.aiType = "wander" =>
                      path = << Vec3(p.x - 400, 0, p.z - 400), Vec3(p.x + 400, 0, p.z - 400),
                                Vec3(p.x + 400, 0, p.z + 400), Vec3(p.x - 400, 0, p.z + 400) >>

\* C19 witness: a patrol enemy that was moved by the spawn-distance rule after
\* its hint placement, in a template with lanes, has its path around the
\* position it ended at
PathAfterSpawnMove ==
    /\ Registered /\ pc = "enemyLoop"
    /\ template.lanes # << >>
    /\ \E i \in 1..enemyIdx :
          /\ adjustedEnemies[i].aiType = "patrol"
          /\ hintOf[i] >= 0
          /\ adjustedEnemies[i].position
                # HintPosition(template.enemyHints[hintOf[i] + 1],
                               AssignedTo(hintOf[i], i - 1))
          /\ Len(adjustedEnemies[i].patrolPath) = 2

\* C20: every enemy of AI type chase or boss in adjustedEnemies has no
\* movement path after build, whatever patrol path the request gave it.
ChaseAndBossHaveNoPath ==
    (BuildReturned /\ Registered) =>
        \A i \in DOMAIN adjustedEnemies :
            adjustedEnemies[i].aiType \in {"chase", "boss"}
                => adjustedEnemies[i].patrolPath = << >>

\* ------------------------------------------------------------------------
\* Pickup placement
\* ------------------------------------------------------------------------
\* C21: a pickup that placePickups gave a hint lies at that hint's world
\* position clamped to |x| <= arenaX/2 - 2 m and |z| <= arenaZ/2 - 2 m, at
\* height y = 0.5 m, whatever its type and its position in the request; a
\* pickup that got no hint (the template has no pickup hints, or the template
\* name is unknown) is returned exactly as the request gave it.
HintedPickupOnHint ==
    BuildReturned =>
        /\ Len(adjustedPickups) = Len(pickups)
        /\ ~Registered => adjustedPickups = pickups
        /\ Registered =>
              \A i \in DOMAIN adjustedPickups :
                  IF pickupHintOf[i] >= 0
                  THEN LET hint == template.pickupHints[pickupHintOf[i] + 1]
                           at   == toWorld(hint.nx, hint.nz)
                       IN  adjustedPickups[i].position =
                               Vec3(Max(-(sX \div 2 - 200), Min(sX \div 2 - 200, at.x)),
                                    50,
                                    Max(-(sZ \div 2 - 200), Min(sZ \div 2 - 200, at.z)))
                  ELSE adjustedPickups[i] = pickups[i]

\* C21 witness: two pickups of different types were returned on hints, one of
\* them on a hint whose world position lies outside the clamp rectangle
ClampedPickupPlaced ==
    /\ BuildReturned /\ Registered
    /\ \E i, j \in DOMAIN adjustedPickups :
          /\ pickupHintOf[i] >= 0 /\ pickupHintOf[j] >= 0
          /\ pickups[i].type # pickups[j].type
          /\ LET hint == template.pickupHints[pickupHintOf[i] + 1]
                 at   == toWorld(hint.nx, hint.nz)
             IN  /\ Abs(at.x) > sX \div 2 - 200
                 /\ adjustedPickups[i].position.x # at.x
                 /\ adjustedPickups[i].position.y = 50

\* ------------------------------------------------------------------------
\* The overlap pass of validateLayout
\* ------------------------------------------------------------------------
\* the boxes validateLayout was called with: the covers build returned, then
\* the walls
ValidatedBoxes == AllBoxes(firstResult.coverObjects, wallEntities)

\* the index pairs i < j whose boxes intersect
IntersectingPairs(boxes) ==
    { p \in (DOMAIN boxes) \X (DOMAIN boxes) :
        p[1] < p[2] /\ aabbIntersects(boxes[p[1]].aabb, boxes[p[2]].aabb) }

OverlapIssues == SelectSeq(issues, LAMBDA e : e.type = "overlap")

\* C26: in the overlap pass a box is flagged exactly when it intersects some
\* box earlier in allBoxes (covers first, then walls), so the first box is
\* never flagged and a flagged cover intersects an earlier cover, never only a
\* wall; there is exactly one "overlap" issue per intersecting pair; and a
\* cover is removed from coverObjects exactly when it is flagged.
OverlapPassPolicy ==
    Validated =>
        LET boxes   == ValidatedBoxes
            nCovers == Len(firstResult.coverObjects)
            pairs   == IntersectingPairs(boxes)
        IN  /\ \A j \in DOMAIN boxes :
                  boxes[j].id \in overlapIds <=> \E i \in 1..(j - 1) : <<i, j>> \in pairs
            /\ Len(boxes) > 0 => boxes[1].id \notin overlapIds
            /\ \A j \in 1..nCovers :
                  boxes[j].id \in overlapIds
                      => \E i \in 1..(j - 1) : i <= nCovers /\ <<i, j>> \in pairs
            /\ Len(OverlapIssues) = Cardinality(pairs)
            /\ \A p \in pairs :
                  Cardinality({ k \in DOMAIN OverlapIssues :
                                  /\ OverlapIssues[k].a = boxes[p[1]].id
                                  /\ OverlapIssues[k].b = boxes[p[2]].id }) = 1
            /\ coverObjects = SelectSeq(firstResult.coverObjects,
                                        LAMBDA c : c.id \notin overlapIds)

\* C26 witness: a cover was flagged and removed, a cover that intersects a
\* later box was kept, and a wall that intersects a cover was flagged
CoverAndWallFlagged ==
    /\ Validated
    /\ LET boxes   == ValidatedBoxes
           nCovers == Len(firstResult.coverObjects)
           pairs   == IntersectingPairs(boxes)
       IN  /\ \E j \in 1..nCovers : boxes[j].id \in overlapIds
           /\ Len(coverObjects) < nCovers
           /\ \E p \in pairs : /\ p[1] <= nCovers
                               /\ boxes[p[1]].id \notin overlapIds
           /\ \E p \in pairs : /\ p[1] <= nCovers /\ p[2] > nCovers
                               /\ boxes[p[2]].id \in overlapIds

\* ------------------------------------------------------------------------
\* Which covers the overlap pass removes
\* ------------------------------------------------------------------------
\* C28 as claimed: every cover that validateLayout removes intersects at least
\* one earlier-indexed box that is itself kept (not flagged), so a chain A-B-C
\* in which only neighbours intersect loses B alone.
RemovedOnlyWhenNeeded ==
    Validated =>
        LET boxes   == ValidatedBoxes
            nCovers == Len(firstResult.coverObjects)
        IN  \A j \in 1..nCovers :
                boxes[j].id \in overlapIds
                    => \E i \in 1..(j - 1) :
                          /\ aabbIntersects(boxes[i].aabb, boxes[j].aabb)
                          /\ boxes[i].id \notin overlapIds

\* cover j of the validated call is no longer in coverObjects
CoverRemoved(j) ==
    \A k \in DOMAIN coverObjects : coverObjects[k].id # ValidatedBoxes[j].id

\* C28: validateLayout removes a cover exactly when it intersects some
\* earlier-indexed box, whether that box is itself kept or not: in a chain
\* A-B-C in which only neighbours intersect, B is removed for touching A and C
\* is removed for touching B although B is gone.
RemovedWhenTouchingEarlier ==
    Validated =>
        LET boxes   == ValidatedBoxes
            nCovers == Len(firstResult.coverObjects)
        IN  \A j \in 1..nCovers :
                CoverRemoved(j)
                    <=> \E i \in 1..(j - 1) :
                            aabbIntersects(boxes[i].aabb, boxes[j].aabb)

\* C28 witness: a cover was removed although every earlier box it intersects
\* is a cover that was removed too
ChainLosesTwo ==
    /\ Validated
    /\ LET boxes   == ValidatedBoxes
           nCovers == Len(firstResult.coverObjects)
       IN  \E j \in 1..nCovers :
              /\ CoverRemoved(j)
              /\ \A i \in 1..(j - 1) :
                    aabbIntersects(boxes[i].aabb, boxes[j].aabb)
                        => i <= nCovers /\ CoverRemoved(i)

\* ------------------------------------------------------------------------
\* Gaps and doorways
\* ------------------------------------------------------------------------
\* candidate i of line l is within 0.6 w of the distance of gap k of the line
NearGapOf(l, i, k) ==
    LET g    == LineGeometry(l)
        frac == template.wallLines[l].gaps[k]
    IN  /\ 100 * (2 * i + 1) * g.len - 2 * g.n * frac * g.len < 120 * g.n * g.w
        /\ 2 * g.n * frac * g.len - 100 * (2 * i + 1) * g.len < 120 * g.n * g.w

\* C27 as claimed: for every wall line of world length >= 0.1 m and every gap
\* fraction in [0, 1] in its gaps list, at least one of the line's candidate
\* segments is suppressed because of that gap: its centre is within 0.6 w of
\* the gap and no wall entity stands there.
EveryGapMakesDoorway ==
    (Registered /\ pc = "enemies") =>
        \A l \in TiledLines :
            \A k \in DOMAIN template.wallLines[l].gaps :
                \E i \in 0..(LineGeometry(l).n - 1) :
                    /\ NearGapOf(l, i, k)
                    /\ \A e \in DOMAIN wallEntities :
                          wallEntities[e].position # CandidateCentre(l, i)

\* ------------------------------------------------------------------------
\* Behaviour paths and the arena rectangle
\* ------------------------------------------------------------------------
\* C29 as claimed: every waypoint of the patrol path regenerated for a patrol
\* or wander enemy lies inside the arena rectangle, |x| <= arenaSizeX/2 and
\* |z| <= arenaSizeZ/2.
WaypointsInsideArena ==
    (BuildReturned /\ Registered) =>
        \A i \in DOMAIN adjustedEnemies :
            adjustedEnemies[i].aiType \in {"patrol", "wander"} =>
                \A k \in DOMAIN adjustedEnemies[i].patrolPath :
                    /\ 2 * Abs(adjustedEnemies[i].patrolPath[k].x) <= sX
                    /\ 2 * Abs(adjustedEnemies[i].patrolPath[k].z) <= sZ

\* ------------------------------------------------------------------------
\* The returned enemies and pickups are the request's
\* ------------------------------------------------------------------------
\* C30: whenever build returns, for every template name, adjustedEnemies and
\* adjustedPickups hold exactly the request's entries: the same number, with
\* the same ids in the same order; an enemy differs from the request's only in
\* position and behaviour path (patrolPath, guardPosition), a pickup only in
\* position; nothing is dropped or duplicated, also when the hints are over
\* capacity.
RequestEntriesKept ==
    BuildReturned =>
        /\ Len(adjustedEnemies) = Len(enemies)
        /\ Len(adjustedPickups) = Len(pickups)
        /\ \A i \in DOMAIN adjustedEnemies :
              /\ adjustedEnemies[i].id = enemies[i].id
              /\ adjustedEnemies[i].aiType = enemies[i].aiType
              /\ DOMAIN adjustedEnemies[i] = DOMAIN enemies[i]
        /\ \A i \in DOMAIN adjustedPickups :
              /\ adjustedPickups[i].id = pickups[i].id
              /\ adjustedPickups[i].type = pickups[i].type
              /\ DOMAIN adjustedPickups[i] = DOMAIN pickups[i]
        /\ \A i, j \in DOMAIN adjustedEnemies :
              i # j => adjustedEnemies[i].id # adjustedEnemies[j].id
        /\ \A i, j \in DOMAIN adjustedPickups :
              i # j => adjustedPickups[i].id # adjustedPickups[j].id

\* C30 witness: build returned two enemies of which the second found no hint
\* with room, the first was moved, and the request's pickup came back
OverCapacityAllReturned ==
    /\ BuildReturned /\ Registered
    /\ Len(adjustedEnemies) = 2
    /\ hintOf[1] >= 0 /\ hintOf[2] = -1
    /\ adjustedEnemies[1].position # enemies[1].position
    /\ Len(adjustedPickups) = 1

\* ------------------------------------------------------------------------
\* The flood fill
\* ------------------------------------------------------------------------
FillEnded == pc = "quadrants"

\* C22: when the fill loop has ended, a cell is visited exactly when it is
\* unblocked and joined to the clamped spawn cell by a chain of 4-adjacent
\* unblocked cells; no blocked cell is ever visited; with the spawn cell
\* blocked nothing is visited.
FloodFillComponent ==
    /\ visited \cap blocked = {}
    /\ FillEnded =>
          LET open == Cells \ blocked
              seed == SpawnCell(playerSpawn)
          IN  /\ seed \in Cells
              /\ seed \in blocked => visited = {}
              /\ seed \notin blocked => visited = ConnectedComponent(open, seed)

\* C22 witness: the fill ended with several cells visited and an unblocked
\* cell left unvisited that touches a visited cell only at a corner
ComponentLeavesOpenCells ==
    /\ FillEnded
    /\ Cardinality(visited) >= 2
    /\ \E d \in Cells \ (blocked \cup visited) :
          \E c \in visited : Abs(c[1] - d[1]) = 1 /\ Abs(c[2] - d[2]) = 1

\* C23: the fill always terminates, for any arrangement of blocked cells: each
\* cell is marked visited and pushed at most once, so the loop ends after at
\* most gridW x gridH pops. In every state each cell on the stack is there
\* once, is open and is marked visited, and every visited cell is on the stack
\* or has been popped (marks = pushes = pops + stack length); no more cells
\* are popped than the grid has; and the loop, once entered, is left.
FloodFillTerminates ==
    /\ [](LET onStack == { stack[k] : k \in DOMAIN stack }
          IN  /\ stack \in Seq(Cells)
              /\ Cardinality(onStack) = Len(stack)
              /\ onStack \subseteq visited
              /\ visited \subseteq Cells \ blocked
              /\ Cardinality(visited) = pops + Len(stack)
              /\ pops <= gridW * gridH)
    /\ (pc = "flood") ~> FillEnded

\* C23 witness: the fill ended after popping every cell of a grid of at
\* least four cells, none of them blocked
WholeGridPopped ==
    /\ FillEnded
    /\ blocked = {}
    /\ gridW * gridH >= 4
    /\ pops = gridW * gridH
    /\ visited = Cells

\* ------------------------------------------------------------------------
\* The "unreachable" issue
\* ------------------------------------------------------------------------
\* validateLayout has gone through its three passes and returned
AuditReturned == pc = "validated" /\ quadCoverage # << >>

\* C24: validateLayout reports an "unreachable" issue exactly when at least
\* one cell is unblocked and fewer than 70% of the unblocked cells were
\* visited by the fill; with the spawn cell blocked the fraction is 0 and the
\* issue is reported; a call reports at most one such issue.
UnreachableIssuePolicy ==
    AuditReturned =>
        LET open      == Cells \ blocked
            reachable == Cardinality(open \cap visited)
            reported  == Len(SelectSeq(issues, LAMBDA e : e.type = "unreachable"))
        IN  /\ reported <= 1
            /\ reported = 1
                  <=> (open # {} /\ 10 * reachable < 7 * Cardinality(open))
            /\ (SpawnCell(playerSpawn) \in blocked /\ open # {})
                  => reachable = 0 /\ reported = 1

\* C24 witness: the fill reached some cells from an unblocked spawn cell, but
\* fewer than 70% of the open ones, and the issue was reported
PartlyReachableReported ==
    /\ AuditReturned
    /\ SpawnCell(playerSpawn) \notin blocked
    /\ Cardinality(visited) >= 1
    /\ 10 * Cardinality(visited) < 7 * Cardinality(Cells \ blocked)
    /\ \E k \in DOMAIN issues : issues[k].type = "unreachable"

\* ------------------------------------------------------------------------
\* Flagged boxes in the reachability and density passes
\* ------------------------------------------------------------------------
\* the boxes of the call that the overlap pass did not flag
UnflaggedBoxes == SelectSeq(ValidatedBoxes, LAMBDA b : b.id \notin overlapIds)

\* the 1 m square of cell c and box a share some area
CellCovered(a, c) ==
    /\ a.minX < (c[1] + 1) * gridRes - validatorHalfX
    /\ a.maxX > c[1] * gridRes - validatorHalfX
    /\ a.minZ < (c[2] + 1) * gridRes - validatorHalfZ
    /\ a.maxZ > c[2] * gridRes - validatorHalfZ

\* C25: a wall flagged by the overlap pass stays in wallEntities but adds no
\* blocked cell and no quadrant coverage: the blocked grid and the four
\* coverages are those of the unflagged boxes alone, every blocked cell being
\* touched by an unflagged box; and an unflagged cover or wall blocks every
\* cell its box covers.
FlaggedBoxesIgnored ==
    AuditReturned =>
        /\ wallEntities = firstResult.wallEntities
        /\ blocked = BlockedCells(UnflaggedBoxes, {})
        /\ \A c \in blocked :
              \E i \in DOMAIN UnflaggedBoxes :
                  LET a == UnflaggedBoxes[i].aabb
                  IN  /\ a.minX <= (c[1] + 1) * gridRes - validatorHalfX
                      /\ a.maxX >= c[1] * gridRes - validatorHalfX
                      /\ a.minZ <= (c[2] + 1) * gridRes - validatorHalfZ
                      /\ a.maxZ >= c[2] * gridRes - validatorHalfZ
        /\ \A i \in DOMAIN UnflaggedBoxes :
              \A c \in Cells : CellCovered(UnflaggedBoxes[i].aabb, c) => c \in blocked
        /\ \A q \in DOMAIN Quadrants :
              quadCoverage[q] = CoveredArea(UnflaggedBoxes, {}, Quadrants[q])

\* C25 witness: a flagged wall is still in wallEntities, a cell that only its
\* box covers was left open and was visited by the fill, and some unflagged
\* wall has blocked cells
FlaggedWallWalkedThrough ==
    /\ AuditReturned
    /\ \E w \in DOMAIN wallEntities :
          LET a == entityToAABB(wallEntities[w].position, wallEntities[w].assetId)
          IN  /\ wallEntities[w].id \in overlapIds
              /\ \E c \in Cells : CellCovered(a, c) /\ c \notin blocked /\ c \in visited
    /\ \E w \in DOMAIN wallEntities :
          /\ wallEntities[w].id \notin overlapIds
          /\ \E c \in blocked :
                CellCovered(entityToAABB(wallEntities[w].position,
                                         wallEntities[w].assetId), c)

====
